---- MODULE Spec2Model ----
(***************************************************************************)
(* Server-side rate limiting and response caching of samakitrack:          *)
(*   api/rate-limit.js   RateLimiter (sliding window per identifier)       *)
(*   api/sheets.js       handler with serverCache / rateLimitMap           *)
(*   unnamed/part_001    handler with cache / rateLimits (bounded cache)   *)
(* Time is in abstract ticks; Date.now() is the variable now.              *)
(***************************************************************************)
EXTENDS Integers, Sequences, FiniteSets, TLC

(* ----------------------------- bounds ---------------------------------- *)
\* new RateLimiter(maxRequests, windowMs): the constructor arguments, and the
\* MAX_REQUESTS / RATE_WINDOW constants of the handlers (30 and 60000 in the
\* source), scaled to a size TLC enumerates.
MaxRequests == 2
WindowMs == 3
\* Date.now() ranges over 0..MaxTime.
MaxTime == 4
\* CACHE_TTL / CACHE_DURATION (5 * 60 * 1000 in the source), scaled.
CacheTtl == 1
\* MAX_CACHE_SIZE (100 in the source), scaled.
CacheSize == 2
\* The size above which part_001 drops the oldest rate-limit entry (1000 in
\* the source), scaled.
RateMapLimit == 1
\* Milliseconds per second (1000 in the source), scaled with the clock.
MsPerSec == 2

Identifiers == {"a", "b"}

VARIABLES
    now,        \* Date.now()
    lastOp,     \* name of the operation that ran last
    requests,   \* RateLimiter.requests: Map identifier -> array of timestamps
    admitted,   \* history: per client, the timestamps of its admitted requests
                \* (since its last reset) that lie inside the trailing window
    result,     \* what the last RateLimiter.check returned, and for whom
    rejected    \* history: "rejected" after a rejected check, "readmitted" after
                \* the admitted check that follows it, "no" otherwise

limiterVars == <<requests, result, rejected>>

VARIABLES
    cache,      \* part_001: const cache = new Map(), key -> {data, timestamp}
    got,        \* the last cache call: its key, the data getCache returned,
                \* whether the key was absent before the call, and the keys
                \* the call removed
    inserted,   \* history: the keys of cache in the order their present entries
                \* were created (Map.set of a key the map did not hold)
    written     \* history: per key, the data and time of the last setCache of
                \* the key; NoWrite before the first, Evicted after a capacity
                \* eviction of the key

cacheVars == <<cache, got, inserted, written>>

VARIABLES
    deployed,   \* which version of api/sheets.js the process runs
    configured, \* process.env holds both API_KEY and SPREADSHEET_ID
    rateLimits, \* part_001: const rateLimits = new Map(), ip -> timestamps
    rateLimitMap, \* sheets.js: const rateLimitMap = new Map()
    serverCache,  \* sheets.js: const serverCache = new Map()
    pending,    \* per handler invocation: idle, or suspended in its await of
                \* the upstream fetch, with what it holds in its locals
    resp        \* the outcome of the last handler step: the request, the
                \* response sent (status 0: none yet, the handler is
                \* suspended) and the calls the step made

handlerVars == <<deployed, configured, rateLimits, rateLimitMap, serverCache,
                 pending, resp>>

VARIABLES
    stores,     \* sw.js: the named stores of the Cache API, name -> URL -> the
                \* body of the response stored for the URL
    swReply,    \* sw.js: the outcome of the last strategy run: the request,
                \* what the network and the store write came to, and the
                \* response handed to event.respondWith
    refreshing  \* sw.js: the background re-fetches in flight, each the store
                \* and the request of the cache-first run that started it

workerVars == <<stores, swReply, refreshing>>

VARIABLES
    script,     \* which version of sw.js the origin runs
    cacheNames, \* caches.keys(): the names of the stores the origin holds
    held,       \* per store name, the responses the store holds: the URL of
                \* each, whether it carries a Date header, and the time the
                \* server produced it
    activation, \* the first activate listener: its position, the names its
                \* caches.keys() gave, the deletions in flight and done, and
                \* whether clients.claim() was called
    sweep       \* cleanupOldCaches: its position, the names and the requests
                \* left to visit, and the store it has open

lifecycleVars == <<script, cacheNames, held, activation, sweep>>

vars == <<now, lastOp, admitted, limiterVars, cacheVars, handlerVars, workerVars,
          lifecycleVars>>

(* ------------------------- JavaScript helpers -------------------------- *)
RECURSIVE SeqMin(_)
\* Math.min(...requests)
SeqMin(s) ==
    IF Len(s) = 1 THEN s[1]
    ELSE LET m == SeqMin(Tail(s)) IN IF s[1] < m THEN s[1] ELSE m

\* A JavaScript Map: the sequence of its [key, val] entries in insertion order.
MapIndex(m, k) ==
    IF \E i \in 1..Len(m) : m[i].key = k
    THEN CHOOSE i \in 1..Len(m) : m[i].key = k
    ELSE 0

MapHas(m, k) == MapIndex(m, k) # 0

MapGet(m, k) == m[MapIndex(m, k)].val

\* Map.prototype.set: an existing key keeps its place, a new key goes last.
MapSet(m, k, v) ==
    IF MapHas(m, k)
    THEN [m EXCEPT ![MapIndex(m, k)] = [key |-> k, val |-> v]]
    ELSE Append(m, [key |-> k, val |-> v])

MapDelete(m, k) == SelectSeq(m, LAMBDA e : e.key # k)

MapKeys(m) == {m[i].key : i \in 1..Len(m)}

\* Math.ceil(x / d) for x >= 0, d > 0
CeilDiv(x, d) == (x + d - 1) \div d

(* ===================== api/rate-limit.js: RateLimiter ================== *)
maxRequests == MaxRequests
windowMs == WindowMs

\* timestamps.filter(t => t > windowStart), windowStart = t0 - windowMs
check_filter_ge(ts, t0) == SelectSeq(ts, LAMBDA t : t >= t0 - windowMs)

check_filter(ts, t0) == SelectSeq(ts, LAMBDA t : t > t0 - windowMs)

\* requests.length >= this.maxRequests
check_limit_gt(n) == n > maxRequests

check_limit(n) == n >= maxRequests

\* resetAt of a rejection: Math.min(...requests) + this.windowMs
check_resetAt_max(ts) == ts[Len(ts)] + windowMs

check_resetAt(ts) == SeqMin(ts) + windowMs

\* The map after the pruning step of check (lines 14-17).
check_pruned(m, id, t0) ==
    IF MapHas(m, id) THEN MapSet(m, id, check_filter(MapGet(m, id), t0)) ELSE m

\* RateLimiter.check(identifier) at time t0 on map m: the map it leaves and
\* the object it returns.
check(m, id, t0) ==
    LET m1 == check_pruned(m, id, t0)
        reqs == IF MapHas(m1, id) THEN MapGet(m1, id) ELSE <<>>
    IN  IF check_limit(Len(reqs))
        THEN [map |-> m1,
              ret |-> [allowed |-> FALSE, remaining |-> 0,
                       resetAt |-> check_resetAt(reqs)]]
        ELSE LET pushed == Append(reqs, t0)
             IN  [map |-> MapSet(m1, id, pushed),
                  ret |-> [allowed |-> TRUE,
                           remaining |-> maxRequests - Len(pushed),
                           resetAt |-> t0 + windowMs]]

\* A cleanup that forgets every identifier.
cleanup_all(m, t0) == <<>>

RECURSIVE cleanup(_, _)
\* RateLimiter.cleanup() at time t0: every entry loses its old timestamps,
\* and is deleted when none is left.
cleanup(m, t0) ==
    IF m = <<>> THEN <<>>
    ELSE LET valid == SelectSeq(m[1].val, LAMBDA t : t > t0 - windowMs)
             rest == cleanup(Tail(m), t0)
         IN  IF Len(valid) = 0 THEN rest
             ELSE <<[key |-> m[1].key, val |-> valid]>> \o rest

\* A timestamp t is inside the trailing window at time t0.
InWindow(t, t0) == t0 - t < windowMs

NoResult == [id |-> "a", allowed |-> TRUE, remaining |-> maxRequests, resetAt |-> 0]

\* new RateLimiter(...)
InitLimiter ==
    /\ requests = <<>>
    /\ result = NoResult
    /\ rejected = [i \in Identifiers |-> "no"]

\* What the steps of the rate limiter leave alone.
OutsideLimiter == <<cacheVars, handlerVars, workerVars, lifecycleVars>>

Check(id) ==
    LET c == check(requests, id, now)
    IN  /\ lastOp' = "check"
        /\ requests' = c.map
        /\ result' = [id |-> id, allowed |-> c.ret.allowed,
                      remaining |-> c.ret.remaining, resetAt |-> c.ret.resetAt]
        /\ admitted' = IF c.ret.allowed
                       THEN [admitted EXCEPT ![id] = Append(@, now)]
                       ELSE admitted
        /\ rejected' = [rejected EXCEPT ![id] =
                            IF ~c.ret.allowed THEN "rejected"
                            ELSE IF @ = "rejected" THEN "readmitted" ELSE "no"]
        /\ UNCHANGED <<now, OutsideLimiter>>

\* RateLimiter.reset(identifier)
Reset(id) ==
    /\ lastOp' = "reset"
    /\ requests' = MapDelete(requests, id)
    /\ admitted' = [admitted EXCEPT ![id] = <<>>]
    /\ rejected' = [rejected EXCEPT ![id] = "no"]
    /\ UNCHANGED <<now, result, OutsideLimiter>>

\* setInterval(() => rateLimiter.cleanup(), ...)
Cleanup ==
    /\ lastOp' = "cleanup"
    /\ requests' = cleanup(requests, now)
    /\ UNCHANGED <<now, result, admitted, rejected, OutsideLimiter>>

\* The clock advances; the history forgets what left the window.
TickLimiter ==
    /\ now < MaxTime
    /\ now' = now + 1
    /\ lastOp' = "tick"
    /\ admitted' = [i \in Identifiers |->
                        SelectSeq(admitted[i], LAMBDA t : InWindow(t, now + 1))]
    /\ UNCHANGED <<requests, result, rejected, OutsideLimiter>>

DoCheck == \E id \in Identifiers : Check(id)

DoReset == \E id \in Identifiers : Reset(id)

NextLimiter == DoCheck \/ DoReset \/ Cleanup \/ TickLimiter


(* ================== unnamed/part_001: the response cache =============== *)
CACHE_TTL == CacheTtl
MAX_CACHE_SIZE == CacheSize

\* null
Null == "null"

\* What upstream can answer; a payload is an opaque value.
Payloads == {"p1", "p2"}

\* A header or query parameter that is not there (undefined).
Absent == "undefined"

\* !x for the strings of the model
Falsy(x) == x \in {Null, Absent, ""}

\* getCacheKey(sheet, action): action ? `${action}` : `sheet:${sheet}`
getCacheKey(sheet, action) ==
    IF ~Falsy(action) THEN <<action>> ELSE <<"sheet:", sheet>>

\* Sheet names: with "list", one more key than the cache can hold.
SheetPool == <<"Roster", "Grades", "Fees", "Staff", "Rooms">>

SheetNames == {SheetPool[i] : i \in 1..MAX_CACHE_SIZE}

CacheKeys == {getCacheKey(Null, "list")} \cup {getCacheKey(sh, Null) : sh \in SheetNames}

\* The cache keys of both versions of the handler.
AllKeys ==
    CacheKeys \cup {<<"sheet-names-list">>} \cup {<<"sheet-data-", sh>> : sh \in SheetNames}

\* Date.now() - item.timestamp > CACHE_TTL
isExpired_ge(ts, t0) == t0 - ts >= CACHE_TTL

isExpired(ts, t0) == t0 - ts > CACHE_TTL

\* A hit that refreshes the entry's place in the map (access order).
getCache_lru(c, key, t0) ==
    IF ~MapHas(c, key) THEN [cache |-> c, data |-> Null]
    ELSE IF isExpired(MapGet(c, key).timestamp, t0)
         THEN [cache |-> MapDelete(c, key), data |-> Null]
         ELSE [cache |-> Append(MapDelete(c, key), [key |-> key, val |-> MapGet(c, key)]),
               data |-> MapGet(c, key).data]

\* getCache(key) at time t0: the cache it leaves and the value it returns.
getCache(c, key, t0) ==
    IF ~MapHas(c, key) THEN [cache |-> c, data |-> Null]
    ELSE IF isExpired(MapGet(c, key).timestamp, t0)
         THEN [cache |-> MapDelete(c, key), data |-> Null]
         ELSE [cache |-> c, data |-> MapGet(c, key).data]

\* The cache after the eviction step of setCache (lines 40-43).
setCache_evicted(c) ==
    IF Len(c) >= MAX_CACHE_SIZE THEN MapDelete(c, c[1].key) ELSE c

\* setCache(key, data) at time t0.
setCache(c, key, data, t0) ==
    MapSet(setCache_evicted(c), key, [data |-> data, timestamp |-> t0])

\* cleanCache() at time t0.
cleanCache(c, t0) == SelectSeq(c, LAMBDA e : ~(t0 - e.val.timestamp > CACHE_TTL))

NoWrite == [data |-> Null, at |-> 0]

Evicted == [data |-> "evicted", at |-> 0]

InitCache ==
    /\ cache = <<>>
    /\ got = [key |-> getCacheKey(Null, "list"), data |-> Null,
              fresh |-> FALSE, gone |-> {}]
    /\ inserted = <<>>
    /\ written = [k \in AllKeys |-> NoWrite]

\* What the steps of the response cache leave alone.
OutsideCache == <<admitted, limiterVars, handlerVars, workerVars, lifecycleVars>>

\* The history of entry creations after map c became map d by deletions.
Remaining(order, d) == SelectSeq(order, LAMBDA k : MapHas(d, k))

GetCache(key) ==
    LET g == getCache(cache, key, now)
    IN  /\ lastOp' = "getCache"
        /\ cache' = g.cache
        /\ got' = [key |-> key, data |-> g.data, fresh |-> ~MapHas(cache, key),
                   gone |-> MapKeys(cache) \ MapKeys(g.cache)]
        /\ inserted' = Remaining(inserted, g.cache)
        /\ UNCHANGED <<now, written, OutsideCache>>

SetCache(key, data) ==
    LET e == setCache_evicted(cache)
        c == setCache(cache, key, data, now)
        gone == {k \in MapKeys(cache) : ~MapHas(c, k)}
    IN  /\ lastOp' = "setCache"
        /\ cache' = c
        /\ got' = [key |-> key, data |-> Null, fresh |-> ~MapHas(cache, key),
                   gone |-> gone]
        /\ inserted' = IF MapHas(e, key) THEN Remaining(inserted, e)
                       ELSE Append(Remaining(inserted, e), key)
        /\ UNCHANGED <<now, written, OutsideCache>>

\* setInterval(cleanCache, 2 * 60 * 1000)
CleanCache ==
    /\ lastOp' = "cleanCache"
    /\ cache' = cleanCache(cache, now)
    /\ inserted' = Remaining(inserted, cleanCache(cache, now))
    /\ UNCHANGED <<now, got, written, OutsideCache>>

\* The clock advances, far enough for an entry to expire and be replaced.
TickCache ==
    /\ now < CACHE_TTL + 2
    /\ now' = now + 1
    /\ lastOp' = "tick"
    /\ UNCHANGED <<cacheVars, OutsideCache>>

DoGetCache == \E key \in CacheKeys : GetCache(key)

\* The cache never looks into the data it stores: one payload is enough here.
DoSetCache == \E key \in CacheKeys : SetCache(key, "p1")

NextCache == DoGetCache \/ DoSetCache \/ CleanCache \/ TickCache

(* ================ unnamed/part_001: the request handler ================ *)
RATE_WINDOW == WindowMs
MAX_REQUESTS == MaxRequests

\* userRequests.filter(t => now - t < RATE_WINDOW)
validRequests(ts, t0) == SelectSeq(ts, LAMBDA t : t0 - t < RATE_WINDOW)

\* The "cleanup old entries" step of checkRateLimit (lines 79-82).
checkRateLimit_cleanup(m) ==
    IF Len(m) > RateMapLimit THEN MapDelete(m, m[1].key) ELSE m

\* checkRateLimit(ip) at time t0: the map it leaves and what it returns.
checkRateLimit(m, ip, t0) ==
    LET userRequests == IF MapHas(m, ip) THEN MapGet(m, ip) ELSE <<>>
        valid == validRequests(userRequests, t0)
    IN  IF Len(valid) >= MAX_REQUESTS
        THEN [map |-> m, ok |-> FALSE]
        ELSE [map |-> checkRateLimit_cleanup(MapSet(m, ip, Append(valid, t0))),
              ok |-> TRUE]

\* String.prototype.trim on the header entries in use: "a " is the one that
\* carries white space.
trim(e) == IF e = "a " THEN "a" ELSE IF e = " " THEN "" ELSE e

\* req.headers['x-forwarded-for']?.split(',')[0]?.trim() ||
\*   req.headers['x-real-ip'] || req.socket.remoteAddress || 'unknown'
\* The forwarded-for header is the sequence of its comma-separated entries.
clientIp(req) ==
    IF req.xff # <<>> /\ trim(req.xff[1]) # "" THEN trim(req.xff[1])
    ELSE IF req.realIp # Absent THEN req.realIp
    ELSE IF req.remote # Absent THEN req.remote
    ELSE "unknown"

\* The X-RateLimit-Limit, -Remaining and -Reset headers, none of them set.
NoHeaders == [limit |-> -1, remaining |-> -1, reset |-> -1]

\* A handler that never takes a request for a preflight.
isPreflight_never(req) == FALSE

\* if (req.method === 'OPTIONS'), the same test in both handlers.
isPreflight(req) == req.method = "OPTIONS"

\* A response: res.status(status) with the headers and body fields set.
Response(req, status, calls) ==
    [req |-> req, status |-> status, retryAfter |-> -1, data |-> Null,
     xcache |-> "none", cached |-> "none", rateLimit |-> NoHeaders,
     calls |-> calls]

NoRequest ==
    [method |-> "", xff |-> <<>>, realIp |-> Absent, remote |-> Absent,
     sheet |-> Absent, action |-> Absent]

\* Not suspended.
Idle == [pc |-> "idle", req |-> NoRequest, key |-> <<>>, started |-> 0, calls |-> {}]

\* res.setHeader('Retry-After', Math.ceil(RATE_WINDOW / 1000)) and the body's
\* retryAfter, on a rate-limited request.
handler_retryAfter == CeilDiv(RATE_WINDOW, MsPerSec)

\* The handler going on to the cache before it answers a rejected client.
handler_limited_lookup(c, req, t0) ==
    [cache |-> getCache(c, getCacheKey(req.sheet, "list"), t0).cache,
     resp |-> [Response(req, 429, {"rateLimit", "cacheRead"})
                  EXCEPT !.retryAfter = handler_retryAfter]]

\* Lines 138-144: the answer to a client checkRateLimit rejected.
handler_limited(c, req, t0) ==
    [cache |-> c,
     resp |-> [Response(req, 429, {"rateLimit"})
                  EXCEPT !.retryAfter = handler_retryAfter]]

\* Lines 157-196: the cache lookup for key, then either the answer from the
\* cache or the suspension in fetchFromGoogleSheets.
handler_lookup(rl, c, req, key, t0) ==
    LET g == getCache(c, key, t0)
        calls == {"rateLimit", "cacheRead"}
    IN  IF g.data = Null
        THEN [rateLimits |-> rl, cache |-> g.cache,
              resp |-> Response(req, 0, calls \cup {"fetch"}),
              pend |-> [pc |-> "fetch", req |-> req, key |-> key,
                        started |-> t0, calls |-> calls \cup {"fetch"}]]
        ELSE [rateLimits |-> rl, cache |-> g.cache,
              resp |-> [Response(req, 200, calls) EXCEPT
                           !.data = g.data,
                           !.xcache = IF g.data = getCache(g.cache, key, t0).data
                                      THEN "HIT" ELSE "MISS",
                           !.cached = IF req.action = "list" THEN "none" ELSE "true"],
              pend |-> Idle]

\* What the awaited upstream call can come to: a 200 with a payload, a
\* non-ok status with a body, or a rejected fetch (transport failure).
\* msg is the set of the substrings of error.message the handler looks for:
\* fetchFromGoogleSheets puts the status and the body in the message of the
\* error it throws, a rejected fetch brings its own message.
UpstreamOutcomes ==
    {[kind |-> "ok", status |-> "200", data |-> d, msg |-> {}] : d \in Payloads}
    \cup {[kind |-> "http", status |-> st, data |-> Null, msg |-> {st} \cup body] :
             st \in {"401", "403", "404", "500"}, body \in {{}, {"404"}}}
    \cup {[kind |-> "network", status |-> "", data |-> Null, msg |-> m] :
             m \in {{"ECONNREFUSED"}, {"ETIMEDOUT"}, {}}}

\* Lines 214-243: the status the catch block answers an error with.
handler_catch(msg) ==
    IF "404" \in msg THEN 404
    ELSE IF "403" \in msg \/ "401" \in msg THEN 403
    ELSE IF "ECONNREFUSED" \in msg \/ "ETIMEDOUT" \in msg THEN 503
    ELSE 500

\* handler from the return of its await (lines 165-175, 191-212) to its
\* response, at time t0, pend being what it held when it suspended.
handler_resume(c, pend, out, t0) ==
    IF out.kind = "ok"
    THEN LET c1 == setCache(c, pend.key, out.data, t0)
             g == getCache(c1, pend.key, t0)
         IN  [cache |-> g.cache,
              resp |-> [Response(pend.req, 200, pend.calls \cup {"cacheWrite"})
                           EXCEPT !.data = out.data,
                                  !.xcache = IF out.data = g.data THEN "HIT" ELSE "MISS",
                                  !.cached = IF pend.req.action = "list"
                                             THEN "none" ELSE "true"]]
    ELSE [cache |-> c,
          resp |-> Response(pend.req, handler_catch(out.msg), pend.calls)]

\* handler(req, res) at time t0, up to its response or its first await.
handler(rl, c, req, t0) ==
    IF isPreflight(req)
    THEN [rateLimits |-> rl, cache |-> c, resp |-> Response(req, 200, {}),
          pend |-> Idle]
    ELSE IF req.method # "GET"
    THEN [rateLimits |-> rl, cache |-> c, resp |-> Response(req, 405, {}),
          pend |-> Idle]
    ELSE LET lim == checkRateLimit(rl, clientIp(req), t0)
             calls == {"rateLimit"}
         IN  IF ~lim.ok
             THEN LET r == handler_limited(c, req, t0)
                  IN  [rateLimits |-> lim.map, cache |-> r.cache,
                       resp |-> r.resp, pend |-> Idle]
             ELSE IF ~configured
             THEN [rateLimits |-> lim.map, cache |-> c,
                   resp |-> Response(req, 500, calls), pend |-> Idle]
             ELSE IF req.action = "list"
             THEN handler_lookup(lim.map, c, req, getCacheKey(Null, "list"), t0)
             ELSE IF Falsy(req.sheet)
             THEN [rateLimits |-> lim.map, cache |-> c,
                   resp |-> Response(req, 400, calls), pend |-> Idle]
             ELSE handler_lookup(lim.map, c, req, getCacheKey(req.sheet, Null), t0)

(* ================== api/sheets.js: the request handler ================= *)
CACHE_DURATION == CacheTtl
RATE_LIMIT_WINDOW == WindowMs
MAX_REQUESTS_PER_MINUTE == MaxRequests

\* checkRateLimit(ip) of sheets.js at time t0.
checkRateLimit_sheets(m, ip, t0) ==
    LET m1 == IF ~MapHas(m, ip) THEN MapSet(m, ip, <<>>) ELSE m
        reqs == SelectSeq(MapGet(m1, ip), LAMBDA time : time > t0 - RATE_LIMIT_WINDOW)
        m2 == MapSet(m1, ip, reqs)
    IN  IF Len(reqs) >= MAX_REQUESTS_PER_MINUTE
        THEN [map |-> m2, ok |-> FALSE]
        ELSE [map |-> MapSet(m2, ip, Append(reqs, t0)), ok |-> TRUE]

\* cleanExpiredCache() at time t0.
cleanExpiredCache(c, t0) ==
    SelectSeq(c, LAMBDA e : ~(t0 - e.val.timestamp > CACHE_DURATION))

\* The test of getCachedData (lines 48-54): the key is cached and still valid.
getCachedData_hit(c, key, t0) ==
    MapHas(c, key) /\ t0 - MapGet(c, key).timestamp < CACHE_DURATION

\* req.headers['x-forwarded-for']?.split(',')[0] || req.headers['x-real-ip']
\*   || req.connection.remoteAddress || 'unknown'
clientIp_sheets(req) ==
    IF req.xff # <<>> /\ req.xff[1] # "" THEN req.xff[1]
    ELSE IF req.realIp # Absent THEN req.realIp
    ELSE IF req.remote # Absent THEN req.remote
    ELSE "unknown"

\* getCachedData(cacheKey, ...) up to its return or its await, and the
\* response built from what it returns (lines 102-123, 133-153).
handler_sheets_lookup(rl, c, req, key, t0) ==
    LET calls == {"rateLimit", "cacheSweep", "cacheRead"}
    IN  IF getCachedData_hit(c, key, t0)
        THEN [rateLimitMap |-> rl, serverCache |-> c,
              resp |-> [Response(req, 200, calls) EXCEPT
                           !.data = MapGet(c, key).data, !.cached = "true"],
              pend |-> Idle]
        ELSE [rateLimitMap |-> rl, serverCache |-> c,
              resp |-> Response(req, 0, calls \cup {"fetch"}),
              pend |-> [pc |-> "fetch", req |-> req, key |-> key,
                        started |-> t0, calls |-> calls \cup {"fetch"}]]

\* handler(req, res) of sheets.js at time t0, up to its response or its
\* first await.
handler_sheets(rl, c, req, t0) ==
    IF isPreflight(req)
    THEN [rateLimitMap |-> rl, serverCache |-> c,
          resp |-> Response(req, 200, {}), pend |-> Idle]
    ELSE LET lim == checkRateLimit_sheets(rl, clientIp_sheets(req), t0)
             c1 == cleanExpiredCache(c, t0)
         IN  IF ~lim.ok
             THEN [rateLimitMap |-> lim.map, serverCache |-> c,
                   resp |-> Response(req, 429, {"rateLimit"}), pend |-> Idle]
             ELSE IF req.action = "list"
             THEN handler_sheets_lookup(lim.map, c1, req, <<"sheet-names-list">>, t0)
             ELSE IF Falsy(req.sheet)
             THEN [rateLimitMap |-> lim.map, serverCache |-> c1,
                   resp |-> Response(req, 400, {"rateLimit", "cacheSweep"}),
                   pend |-> Idle]
             ELSE handler_sheets_lookup(lim.map, c1, req, <<"sheet-data-", req.sheet>>, t0)

\* handler of sheets.js from the return of the await in getCachedData
\* (lines 58-66) to its response: the entry is stored with the time
\* getCachedData read when it was called.
handler_sheets_resume(c, pend, out) ==
    IF out.kind = "ok"
    THEN [serverCache |-> MapSet(c, pend.key, [data |-> out.data,
                                              timestamp |-> pend.started]),
          resp |-> [Response(pend.req, 200, pend.calls \cup {"cacheWrite"})
                       EXCEPT !.data = out.data, !.cached = "true"]]
    ELSE [serverCache |-> c, resp |-> Response(pend.req, 500, pend.calls)]

(* ================== api/rate-limit.js: the request handler ============= *)
\* req.headers['x-forwarded-for']?.split(',')[0] || req.headers['x-real-ip']
\*   || 'unknown'
identifier(req) ==
    IF req.xff # <<>> /\ req.xff[1] # "" THEN req.xff[1]
    ELSE IF req.realIp # Absent THEN req.realIp
    ELSE "unknown"

\* handler(req, res) of rate-limit.js at time t0 on the limiter's map m: the
\* map it leaves, what check returned and the response.
handler_limiter(m, req, t0) ==
    LET id == identifier(req)
        c == check(m, id, t0)
        headers == [limit |-> maxRequests, remaining |-> c.ret.remaining,
                    reset |-> c.ret.resetAt]
    IN  [map |-> c.map,
         result |-> [id |-> id, allowed |-> c.ret.allowed,
                     remaining |-> c.ret.remaining, resetAt |-> c.ret.resetAt],
         resp |-> IF ~c.ret.allowed
                  THEN [Response(req, 429, {"rateLimit"}) EXCEPT
                           !.rateLimit = headers,
                           !.retryAfter = CeilDiv(c.ret.resetAt - t0, MsPerSec)]
                  ELSE [Response(req, 200, {"rateLimit"}) EXCEPT
                           !.rateLimit = headers]]

(* ====================== the handlers as a state machine ================ *)
\* Handler invocations that can be in flight together.
Slots == {"r1", "r2"}

Ips == {"a", "b"}

Clients == Identifiers \cup Ips

\* A GET request of client ip for ?sheet=sheet&action=action.
Get(ip, sheet, action) ==
    [method |-> "GET", xff |-> <<ip>>, realIp |-> Absent, remote |-> Absent,
     sheet |-> sheet, action |-> action]

InitHandler ==
    /\ rateLimits = <<>>
    /\ rateLimitMap = <<>>
    /\ serverCache = <<>>
    /\ pending = [sl \in Slots |-> Idle]
    /\ resp = Response(NoRequest, 0, {})

OutsideHandler == <<limiterVars, got, inserted, workerVars, lifecycleVars>>

\* The history of setCache calls after map c became map d by a write of key.
Written(c, d, key, data, at) ==
    [k \in AllKeys |->
        IF k = key THEN [data |-> data, at |-> at]
        ELSE IF MapHas(c, k) /\ ~MapHas(d, k) THEN Evicted
        ELSE written[k]]

\* The history of a client's admitted requests is kept until it shows one
\* request more than the limit allows.
HistoryBounded(ip) == Len(admitted[ip]) <= MAX_REQUESTS

\* part_001: a request arrives and its handler runs to its response or await.
Handle(sl, req) ==
    LET h == handler(rateLimits, cache, req, now)
    IN  /\ deployed = "part_001"
        /\ pending[sl].pc = "idle"
        /\ HistoryBounded(clientIp(req))
        /\ lastOp' = "handler"
        /\ rateLimits' = h.rateLimits
        /\ cache' = h.cache
        /\ resp' = h.resp
        /\ pending' = [pending EXCEPT ![sl] = h.pend]
        /\ admitted' = IF "rateLimit" \in h.resp.calls /\ h.resp.status # 429
                       THEN [admitted EXCEPT ![clientIp(req)] = Append(@, now)]
                       ELSE admitted
        /\ UNCHANGED <<now, deployed, configured, rateLimitMap, serverCache,
                       written, OutsideHandler>>

\* Upstream answers 200 only to a URL that names a spreadsheet and a key.
Answers(out) == out.kind = "ok" => configured

\* part_001: the upstream call of a suspended handler settles.
Complete(sl, out) ==
    LET h == handler_resume(cache, pending[sl], out, now)
    IN  /\ deployed = "part_001"
        /\ pending[sl].pc = "fetch"
        /\ Answers(out)
        /\ lastOp' = "resume"
        /\ cache' = h.cache
        /\ resp' = h.resp
        /\ pending' = [pending EXCEPT ![sl] = Idle]
        /\ written' = IF out.kind = "ok"
                      THEN Written(cache, h.cache, pending[sl].key, out.data, now)
                      ELSE written
        /\ UNCHANGED <<now, admitted, deployed, configured, rateLimits,
                       rateLimitMap, serverCache, OutsideHandler>>

\* part_001: the cleanCache timer fires.
Sweep ==
    /\ deployed = "part_001"
    /\ lastOp' = "cleanCache"
    /\ cache' = cleanCache(cache, now)
    /\ UNCHANGED <<now, admitted, written, handlerVars, OutsideHandler>>

\* sheets.js: a request arrives.
HandleSheets(sl, req) ==
    LET h == handler_sheets(rateLimitMap, serverCache, req, now)
    IN  /\ deployed = "sheets.js"
        /\ pending[sl].pc = "idle"
        /\ HistoryBounded(clientIp_sheets(req))
        /\ lastOp' = "handler"
        /\ rateLimitMap' = h.rateLimitMap
        /\ serverCache' = h.serverCache
        /\ resp' = h.resp
        /\ pending' = [pending EXCEPT ![sl] = h.pend]
        /\ admitted' = IF "rateLimit" \in h.resp.calls /\ h.resp.status # 429
                       THEN [admitted EXCEPT ![clientIp_sheets(req)] = Append(@, now)]
                       ELSE admitted
        /\ UNCHANGED <<now, deployed, configured, rateLimits, cache,
                       written, OutsideHandler>>

\* sheets.js: the upstream call of a suspended handler settles.
CompleteSheets(sl, out) ==
    LET h == handler_sheets_resume(serverCache, pending[sl], out)
    IN  /\ deployed = "sheets.js"
        /\ pending[sl].pc = "fetch"
        /\ Answers(out)
        /\ lastOp' = "resume"
        /\ serverCache' = h.serverCache
        /\ resp' = h.resp
        /\ pending' = [pending EXCEPT ![sl] = Idle]
        /\ written' = IF out.kind = "ok"
                      THEN Written(serverCache, h.serverCache, pending[sl].key,
                                   out.data, now)
                      ELSE written
        /\ UNCHANGED <<now, admitted, deployed, configured, rateLimits,
                       rateLimitMap, cache, OutsideHandler>>

\* The clock advances; the history forgets the admitted requests that left
\* the window and the writes made more than the time-to-live ago.
TickHandler ==
    /\ now < MaxTime
    /\ now' = now + 1
    /\ lastOp' = "tick"
    /\ admitted' = [i \in Clients |->
                        SelectSeq(admitted[i], LAMBDA t : now + 1 - t < RATE_WINDOW)]
    /\ written' = [k \in AllKeys |->
                      IF written[k].data \in Payloads /\ now + 1 - written[k].at > CACHE_TTL
                      THEN NoWrite ELSE written[k]]
    /\ UNCHANGED <<cache, handlerVars, OutsideHandler>>

(* ======================= sw.js: the service worker ===================== *)
CACHE_STATIC == "samaki-static-v2.0.0"
CACHE_DYNAMIC == "samaki-dynamic-v2.0.0"
CACHE_API == "samaki-api-v2.0.0"

StoreNames == {CACHE_STATIC, CACHE_DYNAMIC, CACHE_API}

\* The same-origin entries of STATIC_ASSETS that are documents.
STATIC_ASSETS == {"/", "/index.html"}

\* The URLs requests are made for: paths of the worker's own origin, and
\* URLs of other origins.
Urls == {"/api/sheets", "/", "/index.html", "/about", "/style.css",
         "/manifest.json",
         "https://fonts.googleapis.com/css2",
         "https://cdn.jsdelivr.net/api/x",
         "https://cdn.jsdelivr.net.evil.example/x",
         "https://evil.example/track.js"}

\* The bodies the network serves with status 200, in two versions.
Bodies == {"v1", "v2"}

\* An intercepted request.
Fetch(url, method, destination) ==
    [url |-> url, method |-> method, destination |-> destination]

\* What fetch(request) comes to: a response with status 200, a response
\* with another status, or a rejection.
NetworkOutcomes ==
    {[kind |-> "ok", status |-> 200, body |-> b] : b \in Bodies}
    \cup {[kind |-> "ok", status |-> 404, body |-> "not found"],
          [kind |-> "failed", status |-> 0, body |-> Absent]}

\* cache.match(request) on a store: the stored body, or undefined. Only GET
\* requests match.
cache_match(store, req) ==
    IF req.method = "GET" THEN store[req.url] ELSE Absent

\* cache.put(request, response) resolves for a GET request when the storage
\* accepts the write (stored), and rejects otherwise.
cache_put_resolves(req, stored) == req.method = "GET" /\ stored

\* The store after a cache.put that resolved.
cache_put(store, req, body) == [store EXCEPT ![req.url] = body]

\* The responses a strategy hands to respondWith: the network response, a
\* cached copy, the synthesized offline payload, or undefined.
NetworkReply(net) ==
    [kind |-> "network", status |-> net.status, body |-> net.body,
     xcached |-> FALSE, offline |-> FALSE]

CachedReply(body, marked) ==
    [kind |-> "cached", status |-> 200, body |-> body,
     xcached |-> marked, offline |-> FALSE]

OfflineReply ==
    [kind |-> "synthesized", status |-> 503, body |-> "offline",
     xcached |-> FALSE, offline |-> TRUE]

UndefinedReply ==
    [kind |-> "undefined", status |-> 0, body |-> Absent,
     xcached |-> FALSE, offline |-> FALSE]

\* The catch block of handleAPIRequest (lines 122-149).
handleAPIRequest_catch(st, req) ==
    LET cachedResponse == cache_match(st[CACHE_API], req)
    IN  IF cachedResponse # Absent
        THEN CachedReply(cachedResponse, TRUE)
        ELSE OfflineReply

\* handleAPIRequest(request) on stores st, the fetch coming to net and the
\* storage accepting a write or not: the stores it leaves and its response.
handleAPIRequest(st, req, net, stored) ==
    IF net.kind = "failed"
    THEN [stores |-> st, reply |-> handleAPIRequest_catch(st, req)]
    ELSE IF net.status = 200
    THEN IF cache_put_resolves(req, stored)
         THEN [stores |-> [st EXCEPT ![CACHE_API] = cache_put(@, req, net.body)],
               reply |-> NetworkReply(net)]
         ELSE [stores |-> st, reply |-> handleAPIRequest_catch(st, req)]
    ELSE [stores |-> st, reply |-> NetworkReply(net)]

\* The catch block of handleDocumentRequest (lines 191-200).
handleDocumentRequest_catch(st, req) ==
    LET cachedResponse == cache_match(st[CACHE_DYNAMIC], req)
        root == cache_match(st[CACHE_DYNAMIC], Fetch("/index.html", "GET", ""))
    IN  IF cachedResponse # Absent THEN CachedReply(cachedResponse, FALSE)
        ELSE IF root # Absent THEN CachedReply(root, FALSE)
        ELSE UndefinedReply

\* handleDocumentRequest(request).
handleDocumentRequest(st, req, net, stored) ==
    IF net.kind = "failed"
    THEN [stores |-> st, reply |-> handleDocumentRequest_catch(st, req)]
    ELSE IF net.status = 200
    THEN IF cache_put_resolves(req, stored)
         THEN [stores |-> [st EXCEPT ![CACHE_DYNAMIC] = cache_put(@, req, net.body)],
               reply |-> NetworkReply(net)]
         ELSE [stores |-> st, reply |-> handleDocumentRequest_catch(st, req)]
    ELSE [stores |-> st, reply |-> NetworkReply(net)]

\* The install listener: cache.addAll(STATIC_ASSETS) stores every asset, or
\* rejects and stores none; the rejection is caught.
install(st, net) ==
    IF net.kind = "ok" /\ net.status = 200
    THEN [st EXCEPT ![CACHE_STATIC] =
            [u \in Urls |-> IF u \in STATIC_ASSETS THEN net.body ELSE @[u]]]
    ELSE st

NoFetch == Fetch("", "", "")

NoReply ==
    [req |-> NoFetch, net |-> [kind |-> "", status |-> 0, body |-> Absent],
     stored |-> FALSE, reply |-> UndefinedReply]

\* A worker that has cached nothing yet.
InitWorker ==
    /\ stores = [n \in StoreNames |-> [u \in Urls |-> Absent]]
    /\ swReply = NoReply
    /\ refreshing = {}

OutsideWorker == <<now, admitted, limiterVars, cacheVars, handlerVars,
                   lifecycleVars>>

\* The install event.
Install(net) ==
    /\ lastOp' = "install"
    /\ stores' = install(stores, net)
    /\ UNCHANGED <<swReply, refreshing, OutsideWorker>>

\* A fetch event handled by handleAPIRequest.
HandleAPIRequest(req, net, stored) ==
    LET h == handleAPIRequest(stores, req, net, stored)
    IN  /\ lastOp' = "handleAPIRequest"
        /\ stores' = h.stores
        /\ swReply' = [req |-> req, net |-> net, stored |-> stored,
                       reply |-> h.reply]
        /\ UNCHANGED <<refreshing, OutsideWorker>>

\* A fetch event handled by handleDocumentRequest.
HandleDocumentRequest(req, net, stored) ==
    LET h == handleDocumentRequest(stores, req, net, stored)
    IN  /\ lastOp' = "handleDocumentRequest"
        /\ stores' = h.stores
        /\ swReply' = [req |-> req, net |-> net, stored |-> stored,
                       reply |-> h.reply]
        /\ UNCHANGED <<refreshing, OutsideWorker>>

\* The 503 placeholder of a cache-first strategy whose fetch failed.
PlaceholderReply(text) ==
    [kind |-> "synthesized", status |-> 503, body |-> text,
     xcached |-> FALSE, offline |-> FALSE]

\* if (cachedResponse) of handleStaticRequest and handleDynamicRequest.
cacheFirst_hit(cachedResponse) == cachedResponse # Absent

\* handleStaticRequest and handleDynamicRequest, which differ by the store
\* they open and the text of their placeholder: the run up to its response,
\* on store name of stores st. A run that finds a copy starts a background
\* re-fetch (started) and returns the copy; a run that finds none awaits
\* the fetch, and the store write when the status is 200.
cacheFirst(st, name, text, req, net, stored) ==
    LET cachedResponse == cache_match(st[name], req)
    IN  IF cacheFirst_hit(cachedResponse)
        THEN [stores |-> st, started |-> TRUE,
              reply |-> CachedReply(cachedResponse, FALSE)]
        ELSE IF net.kind = "failed"
        THEN [stores |-> st, started |-> FALSE, reply |-> PlaceholderReply(text)]
        ELSE IF net.status = 200
        THEN IF cache_put_resolves(req, stored)
             THEN [stores |-> [st EXCEPT ![name] = cache_put(@, req, net.body)],
                   started |-> FALSE, reply |-> NetworkReply(net)]
             ELSE [stores |-> st, started |-> FALSE,
                   reply |-> PlaceholderReply(text)]
        ELSE [stores |-> st, started |-> FALSE, reply |-> NetworkReply(net)]

handleStaticRequest(st, req, net, stored) ==
    cacheFirst(st, CACHE_STATIC, "Offline", req, net, stored)

handleDynamicRequest(st, req, net, stored) ==
    cacheFirst(st, CACHE_DYNAMIC, "Resource unavailable offline", req, net, stored)

\* The background re-fetch of a cache-first run (lines 159-163, 210-214):
\* a 200 response is put in the store, every failure is swallowed.
refresh(st, task, net, stored) ==
    IF net.kind = "ok" /\ net.status = 200 /\ cache_put_resolves(task.req, stored)
    THEN [st EXCEPT ![task.store] = cache_put(@, task.req, net.body)]
    ELSE st

\* A fetch event handled by handleStaticRequest.
HandleStaticRequest(req, net, stored) ==
    LET h == handleStaticRequest(stores, req, net, stored)
    IN  /\ lastOp' = "handleStaticRequest"
        /\ stores' = h.stores
        /\ swReply' = [req |-> req, net |-> net, stored |-> stored,
                       reply |-> h.reply]
        /\ refreshing' = IF h.started
                         THEN refreshing \cup {[store |-> CACHE_STATIC, req |-> req]}
                         ELSE refreshing
        /\ UNCHANGED OutsideWorker

\* A fetch event handled by handleDynamicRequest.
HandleDynamicRequest(req, net, stored) ==
    LET h == handleDynamicRequest(stores, req, net, stored)
    IN  /\ lastOp' = "handleDynamicRequest"
        /\ stores' = h.stores
        /\ swReply' = [req |-> req, net |-> net, stored |-> stored,
                       reply |-> h.reply]
        /\ refreshing' = IF h.started
                         THEN refreshing \cup {[store |-> CACHE_DYNAMIC, req |-> req]}
                         ELSE refreshing
        /\ UNCHANGED OutsideWorker

\* A background re-fetch settles.
Refresh(task, net, stored) ==
    /\ task \in refreshing
    /\ lastOp' = "refresh"
    /\ stores' = refresh(stores, task, net, stored)
    /\ refreshing' = refreshing \ {task}
    /\ UNCHANGED <<swReply, OutsideWorker>>

\* The requests for static assets and for other resources.
StaticRequests == {Fetch("/style.css", "GET", "style")}

DynamicRequests == {Fetch("/manifest.json", "GET", "manifest")}

DoHandleStaticRequest ==
    \E req \in StaticRequests, net \in NetworkOutcomes, stored \in BOOLEAN :
        HandleStaticRequest(req, net, stored)

DoHandleDynamicRequest ==
    \E req \in DynamicRequests, net \in NetworkOutcomes, stored \in BOOLEAN :
        HandleDynamicRequest(req, net, stored)

DoRefresh ==
    \E task \in refreshing, net \in NetworkOutcomes, stored \in BOOLEAN :
        Refresh(task, net, stored)

NextCacheFirst == DoHandleStaticRequest \/ DoHandleDynamicRequest \/ DoRefresh

\* The requests the page makes: API calls and navigations.
ApiRequests == {Fetch("/api/sheets", m, "") : m \in {"GET", "POST"}}

DocumentRequests == {Fetch(u, "GET", "document") : u \in {"/", "/index.html", "/about"}}

DoInstall == \E net \in NetworkOutcomes : Install(net)

DoHandleAPIRequest ==
    \E req \in ApiRequests, net \in NetworkOutcomes, stored \in BOOLEAN :
        HandleAPIRequest(req, net, stored)

DoHandleDocumentRequest ==
    \E req \in DocumentRequests, net \in NetworkOutcomes, stored \in BOOLEAN :
        HandleDocumentRequest(req, net, stored)

NextWorker == DoInstall \/ DoHandleAPIRequest \/ DoHandleDocumentRequest

(* ----------------------- sw.js: the fetch listener --------------------- *)
\* A string as the sequence of the pieces the tests below tell apart.
startsWith(s, prefix) ==
    Len(prefix) <= Len(s) /\ SubSeq(s, 1, Len(prefix)) = prefix

endsWith(s, suffix) ==
    Len(suffix) <= Len(s)
    /\ SubSeq(s, Len(s) - Len(suffix) + 1, Len(s)) = suffix

includes(s, part) ==
    \E i \in 1..(Len(s) - Len(part) + 1) : SubSeq(s, i, i + Len(part) - 1) = part

\* self.location.origin and the host name in it.
location_origin == "https://samakitrack.example"
location_hostname == <<"samakitrack.example">>

\* new URL(request.url): the origin, the host name and the path of a URL.
URL(url) ==
    CASE url = "https://fonts.googleapis.com/css2" ->
            [origin |-> "https://fonts.googleapis.com",
             hostname |-> <<"fonts.googleapis.com">>,
             pathname |-> <<"/css2">>]
      [] url = "https://cdn.jsdelivr.net/api/x" ->
            [origin |-> "https://cdn.jsdelivr.net",
             hostname |-> <<"cdn.jsdelivr.net">>,
             pathname |-> <<"/api/", "x">>]
      [] url = "https://cdn.jsdelivr.net.evil.example/x" ->
            [origin |-> "https://cdn.jsdelivr.net.evil.example",
             hostname |-> <<"cdn.jsdelivr.net", ".evil.example">>,
             pathname |-> <<"/x">>]
      [] url = "https://evil.example/track.js" ->
            [origin |-> "https://evil.example",
             hostname |-> <<"evil.example">>,
             pathname |-> <<"/track", ".js">>]
      [] url = "/api/sheets" ->
            [origin |-> location_origin, hostname |-> location_hostname,
             pathname |-> <<"/api/", "sheets">>]
      [] url = "/style.css" ->
            [origin |-> location_origin, hostname |-> location_hostname,
             pathname |-> <<"/style", ".css">>]
      [] url = "/index.html" ->
            [origin |-> location_origin, hostname |-> location_hostname,
             pathname |-> <<"/index", ".html">>]
      [] url = "/manifest.json" ->
            [origin |-> location_origin, hostname |-> location_hostname,
             pathname |-> <<"/manifest", ".json">>]
      [] OTHER ->
            [origin |-> location_origin, hostname |-> location_hostname,
             pathname |-> <<url>>]

staticExtensions ==
    {".css", ".js", ".woff", ".woff2", ".ttf", ".svg", ".png", ".jpg",
     ".jpeg", ".gif"}

staticHosts ==
    {"cdn.jsdelivr.net", "cdnjs.cloudflare.com", "fonts.googleapis.com",
     "fonts.gstatic.com"}

\* A fetch listener that takes a host for a CDN when it is one by name.
hostIncluded_exact(hostname, host) == hostname = <<host>>

\* url.hostname.includes(host)
hostIncluded(hostname, host) == includes(hostname, <<host>>)

isStaticAsset(url) ==
    (\E ext \in staticExtensions : endsWith(url.pathname, <<ext>>))
    \/ (\E host \in staticHosts : hostIncluded(url.hostname, host))

\* The test of lines 77-83: the listener returns without a response.
skipped(url) ==
    /\ url.origin # location_origin
    /\ \A host \in staticHosts : ~hostIncluded(url.hostname, host)

\* The strategy the fetch listener hands the request to, "none" when it
\* returns without calling event.respondWith.
dispatch(req) ==
    LET url == URL(req.url)
    IN  IF skipped(url) THEN "none"
        ELSE IF startsWith(url.pathname, <<"/api/">>) THEN "handleAPIRequest"
        ELSE IF isStaticAsset(url) THEN "handleStaticRequest"
        ELSE IF req.destination = "document" THEN "handleDocumentRequest"
        ELSE "handleDynamicRequest"

\* event.respondWith(strategy(request)): the stores the strategy leaves,
\* the store of the background re-fetch it started (Absent when none) and
\* its response.
respondWith(strategy, st, req, net, stored) ==
    CASE strategy = "handleAPIRequest" ->
            LET h == handleAPIRequest(st, req, net, stored)
            IN  [stores |-> h.stores, started |-> Absent, reply |-> h.reply]
      [] strategy = "handleDocumentRequest" ->
            LET h == handleDocumentRequest(st, req, net, stored)
            IN  [stores |-> h.stores, started |-> Absent, reply |-> h.reply]
      [] strategy = "handleStaticRequest" ->
            LET h == handleStaticRequest(st, req, net, stored)
            IN  [stores |-> h.stores,
                 started |-> IF h.started THEN CACHE_STATIC ELSE Absent,
                 reply |-> h.reply]
      [] strategy = "handleDynamicRequest" ->
            LET h == handleDynamicRequest(st, req, net, stored)
            IN  [stores |-> h.stores,
                 started |-> IF h.started THEN CACHE_DYNAMIC ELSE Absent,
                 reply |-> h.reply]
      [] OTHER -> [stores |-> st, started |-> Absent, reply |-> UndefinedReply]

\* A fetch event: the listener classifies the request and the strategy it
\* chose runs. lastOp names the strategy, "none" when the request is left
\* to the browser.
FetchEvent(req, net, stored) ==
    LET strategy == dispatch(req)
        h == respondWith(strategy, stores, req, net, stored)
    IN  /\ lastOp' = strategy
        /\ stores' = h.stores
        /\ swReply' = [req |-> req, net |-> net, stored |-> stored,
                       reply |-> h.reply]
        /\ refreshing' = IF h.started # Absent
                         THEN refreshing \cup {[store |-> h.started, req |-> req]}
                         ELSE refreshing
        /\ UNCHANGED OutsideWorker

\* The requests the pages make: one or more for every branch of the
\* listener, of the worker's own origin and of others.
FetchEvents ==
    {Fetch("/api/sheets", "GET", ""),
     Fetch("/style.css", "GET", "document"),
     Fetch("/about", "GET", "document"),
     Fetch("/manifest.json", "GET", "manifest"),
     Fetch("https://fonts.googleapis.com/css2", "GET", "style"),
     Fetch("https://cdn.jsdelivr.net/api/x", "GET", "script"),
     Fetch("https://cdn.jsdelivr.net.evil.example/x", "GET", "image"),
     Fetch("https://evil.example/track.js", "GET", "script")}

\* The network of the fetch specification serves one version of each body.
FetchOutcomes == {net \in NetworkOutcomes : net.body # "v2"}

DoFetchEvent ==
    \E req \in FetchEvents, net \in FetchOutcomes, stored \in BOOLEAN :
        FetchEvent(req, net, stored)

NextFetch == DoFetchEvent

(* --------------- sw.js and part_000: the activate listeners ------------ *)
VERSION == "2.0.0"

\* part_000: the store names of version 1.
CACHE_NAME == "samaki-school-v1"
STATIC_CACHE == "samaki-static-v1"
DYNAMIC_CACHE == "samaki-dynamic-v1"

\* The store names an origin may hold: those of both versions of the worker
\* and one of another script of the origin.
AllNames ==
    StoreNames \cup {CACHE_NAME, STATIC_CACHE, DYNAMIC_CACHE, "workbox-precache"}

\* A store name as the sequence of the pieces the tests tell apart.
NameParts(name) ==
    CASE name = CACHE_STATIC -> <<"samaki-", "static", "-v", VERSION>>
      [] name = CACHE_DYNAMIC -> <<"samaki-", "dynamic", "-v", VERSION>>
      [] name = CACHE_API -> <<"samaki-", "api", "-v", VERSION>>
      [] name = CACHE_NAME -> <<"samaki-", "school", "-v", "1">>
      [] name = STATIC_CACHE -> <<"samaki-", "static", "-v", "1">>
      [] name = DYNAMIC_CACHE -> <<"samaki-", "dynamic", "-v", "1">>
      [] OTHER -> <<name>>

\* caches.keys() as an array: the names in a fixed order.
NameOrder ==
    <<CACHE_STATIC, CACHE_DYNAMIC, CACHE_API, CACHE_NAME, STATIC_CACHE,
      DYNAMIC_CACHE, "workbox-precache">>

caches_keys(names) == SelectSeq(NameOrder, LAMBDA n : n \in names)

\* cache.keys() as an array: the URLs of the held responses in a fixed order.
UrlOrder == <<"/", "/style.css", "/about", "/api/sheets">>

cache_keys(entries) ==
    SelectSeq(UrlOrder, LAMBDA u : \E e \in entries : e.url = u)

\* A held response.
Entry(url, dated, origin) == [url |-> url, dated |-> dated, origin |-> origin]

\* The filter of the activate listener of sw.js (lines 53-56).
activate_stale(name) ==
    startsWith(NameParts(name), <<"samaki-">>)
    /\ ~includes(NameParts(name), <<VERSION>>)

\* The filter of the activate listener of part_000 (line 50).
activate_stale_v1(name) == name # STATIC_CACHE /\ name # DYNAMIC_CACHE

\* The names the activate listener of a script deletes, of those
\* caches.keys() gave it.
activate_filter(version, names) ==
    {name \in names : IF version = "sw.js" THEN activate_stale(name)
                                          ELSE activate_stale_v1(name)}

\* CACHE_EXPIRY, with the day and the minute scaled to the clock.
CACHE_EXPIRY == [static |-> 3, dynamic |-> 2, api |-> 1]

\* The time new Date(null) stands for: 1 January 1970, further before the
\* start of the clock than any max age.
Epoch == 0 - 8

\* new Date(response.headers.get('date')): the time of the Date header, and
\* the epoch when the response carries none.
cacheDate(entry) == IF entry.dated THEN entry.origin ELSE Epoch

\* The max age of lines 332-334.
maxAge(name) ==
    IF includes(NameParts(name), <<"api">>) THEN CACHE_EXPIRY.api
    ELSE IF includes(NameParts(name), <<"static">>) THEN CACHE_EXPIRY.static
    ELSE CACHE_EXPIRY.dynamic

\* if (age > maxAge)
sweep_expired(age, max) == age > max

NoActivation ==
    [pc |-> "idle", names |-> {}, pending |-> {}, deleted |-> {},
     claimed |-> FALSE]

NoSweep ==
    [pc |-> "idle", names |-> <<>>, name |-> "", requests |-> <<>>,
     live |-> FALSE, entries |-> {}]

\* A worker of version 2 that holds its three stores, empty, and has not
\* been activated.
InitLifecycle ==
    /\ script = "sw.js"
    /\ cacheNames = StoreNames
    /\ held = [n \in AllNames |-> {}]
    /\ activation = NoActivation
    /\ sweep = NoSweep

OutsideLifecycle ==
    <<admitted, limiterVars, cacheVars, handlerVars, swReply, refreshing, script>>

\* The stores of version 2 after caches.delete(name).
deleted_store(st, name) ==
    [n \in StoreNames |-> IF n = name THEN [u \in Urls |-> Absent] ELSE st[n]]

\* The activate event: each listener of the script calls caches.keys().
Activate ==
    /\ activation.pc = "idle"
    /\ lastOp' = "activate"
    /\ activation' = [activation EXCEPT !.pc = "keys"]
    /\ sweep' = IF script = "sw.js" THEN [sweep EXCEPT !.pc = "keys"] ELSE sweep
    /\ UNCHANGED <<now, stores, cacheNames, held, OutsideLifecycle>>

\* caches.keys() of the first listener resolves: the listener filters the
\* names and calls caches.delete for each that is left.
ActivateKeys ==
    /\ activation.pc = "keys"
    /\ lastOp' = "activate.keys"
    /\ activation' = [activation EXCEPT !.pc = "deleting",
                                        !.names = cacheNames,
                                        !.pending = activate_filter(script, cacheNames)]
    /\ UNCHANGED <<now, stores, cacheNames, held, sweep, OutsideLifecycle>>

\* One caches.delete(name) completes. A Cache object that was open on the
\* store keeps the responses it held.
ActivateDelete(name) ==
    /\ activation.pc = "deleting"
    /\ name \in activation.pending
    /\ lastOp' = "activate.delete"
    /\ cacheNames' = cacheNames \ {name}
    /\ held' = [held EXCEPT ![name] = {}]
    /\ stores' = deleted_store(stores, name)
    /\ activation' = [activation EXCEPT !.pending = @ \ {name},
                                        !.deleted = @ \cup {name}]
    /\ sweep' = IF sweep.pc = "requests" /\ sweep.name = name /\ sweep.live
                THEN [sweep EXCEPT !.live = FALSE, !.entries = held[name]]
                ELSE sweep
    /\ UNCHANGED <<now, OutsideLifecycle>>

\* Promise.all resolves, every deletion having completed: the listener
\* calls self.clients.claim().
ActivateClaim ==
    /\ activation.pc = "deleting"
    /\ activation.pending = {}
    /\ lastOp' = "activate.claim"
    /\ activation' = [activation EXCEPT !.pc = "done", !.claimed = TRUE]
    /\ UNCHANGED <<now, stores, cacheNames, held, sweep, OutsideLifecycle>>

\* cleanupOldCaches: caches.keys() resolves.
SweepKeys ==
    /\ sweep.pc = "keys"
    /\ lastOp' = "sweep.keys"
    /\ sweep' = [sweep EXCEPT !.pc = "stores", !.names = caches_keys(cacheNames)]
    /\ UNCHANGED <<now, stores, cacheNames, held, activation, OutsideLifecycle>>

\* The sweep is between two stores.
sweep_between ==
    sweep.pc = "stores" \/ (sweep.pc = "requests" /\ sweep.requests = <<>>)

\* cleanupOldCaches: the next name of the list. A name that starts with
\* 'samaki-' is opened, which creates the store when the origin holds none
\* of the name, and its requests are listed.
SweepOpen ==
    /\ sweep_between
    /\ sweep.names # <<>>
    /\ lastOp' = "sweep.open"
    /\ LET name == Head(sweep.names)
       IN  IF startsWith(NameParts(name), <<"samaki-">>)
           THEN /\ cacheNames' = cacheNames \cup {name}
                /\ sweep' = [pc |-> "requests", names |-> Tail(sweep.names),
                             name |-> name, requests |-> cache_keys(held[name]),
                             live |-> TRUE, entries |-> {}]
           ELSE /\ cacheNames' = cacheNames
                /\ sweep' = [sweep EXCEPT !.pc = "stores",
                                          !.names = Tail(sweep.names)]
    /\ UNCHANGED <<now, stores, held, activation, OutsideLifecycle>>

\* cleanupOldCaches: the next request of the open store. The response is
\* matched, its age computed from its Date header, and the entry deleted
\* when the age is over the max age of the store.
SweepCheck ==
    /\ sweep.pc = "requests"
    /\ sweep.requests # <<>>
    /\ lastOp' = "sweep.check"
    /\ LET url == Head(sweep.requests)
           entries == IF sweep.live THEN held[sweep.name] ELSE sweep.entries
       IN  IF \A e \in entries : e.url # url
           THEN \* response is undefined: response.headers throws
                /\ sweep' = [sweep EXCEPT !.pc = "rejected"]
                /\ UNCHANGED <<held, stores>>
           ELSE LET response == CHOOSE e \in entries : e.url = url
                    age == now - cacheDate(response)
                    expired == sweep_expired(age, maxAge(sweep.name))
                IN  /\ sweep' = [sweep EXCEPT
                                    !.requests = Tail(@),
                                    !.entries = IF expired /\ ~sweep.live
                                                THEN @ \ {response} ELSE @]
                    /\ held' = IF expired /\ sweep.live
                               THEN [held EXCEPT ![sweep.name] = @ \ {response}]
                               ELSE held
                    /\ stores' = IF expired /\ sweep.live
                                    /\ sweep.name \in StoreNames
                                 THEN [stores EXCEPT ![sweep.name][url] = Absent]
                                 ELSE stores
    /\ UNCHANGED <<now, cacheNames, activation, OutsideLifecycle>>

\* cleanupOldCaches returns.
SweepDone ==
    /\ sweep_between
    /\ sweep.names = <<>>
    /\ lastOp' = "sweep.done"
    /\ sweep' = [sweep EXCEPT !.pc = "done"]
    /\ UNCHANGED <<now, stores, cacheNames, held, activation, OutsideLifecycle>>

\* A strategy of sw.js stores the response it fetched: caches.open(name)
\* and cache.put(request, response), the response produced now, with or
\* without a Date header the worker can read.
Put(name, url, dated) ==
    /\ script = "sw.js"
    /\ lastOp' = "put"
    /\ cacheNames' = cacheNames \cup {name}
    /\ held' = [held EXCEPT ![name] =
                    {e \in @ : e.url # url} \cup {Entry(url, dated, now)}]
    /\ stores' = [stores EXCEPT ![name][url] = "v1"]
    /\ UNCHANGED <<now, activation, sweep, OutsideLifecycle>>

\* Time passes.
TickLifecycle ==
    /\ now < MaxTime
    /\ now' = now + 1
    /\ lastOp' = "tick"
    /\ UNCHANGED <<stores, cacheNames, held, activation, sweep, OutsideLifecycle>>

DoActivateDelete == \E name \in AllNames : ActivateDelete(name)

\* The responses the strategies store: one URL for each store.
Puts ==
    {<<CACHE_STATIC, "/style.css">>, <<CACHE_DYNAMIC, "/about">>,
     <<CACHE_API, "/api/sheets">>}

DoPut == \E p \in Puts, dated \in BOOLEAN : Put(p[1], p[2], dated)

NextActivate ==
    \/ Activate
    \/ ActivateKeys
    \/ DoActivateDelete
    \/ ActivateClaim
    \/ SweepKeys
    \/ SweepOpen
    \/ SweepCheck
    \/ SweepDone

NextSweep ==
    \/ Activate
    \/ ActivateKeys
    \/ ActivateClaim
    \/ SweepKeys
    \/ SweepOpen
    \/ SweepCheck
    \/ SweepDone
    \/ DoPut
    \/ TickLifecycle

(* ============================ specifications ========================== *)

\* The state of a freshly loaded server process and worker at time 0.
InitServer ==
    /\ now = 0
    /\ lastOp = "init"
    /\ admitted = [i \in Clients |-> <<>>]
    /\ InitLimiter
    /\ InitCache
    /\ InitHandler
    /\ InitWorker

InitProcess ==
    /\ InitServer
    /\ InitLifecycle

Init ==
    /\ InitProcess
    /\ deployed = "part_001"
    /\ configured = TRUE

\* Either version of api/sheets.js is deployed, with or without its
\* environment variables.
InitDeployed ==
    /\ InitProcess
    /\ deployed \in {"part_001", "sheets.js"}
    /\ configured \in BOOLEAN

\* api/rate-limit.js: the RateLimiter under any sequence of calls.
SpecLimiter == Init /\ [][NextLimiter]_vars

\* unnamed/part_001: the cache helpers under any sequence of calls.
SpecCache == Init /\ [][NextCache]_vars

\* The requests of the rate-limit specification: GET requests that carry no
\* parameter, of more clients than rateLimits keeps entries.
BareRequests == {Get(ip, Absent, Absent) : ip \in Ips}

DoHandleBare == \E req \in BareRequests : Handle("r1", req)

DoHandleSheetsBare ==
    \E req \in BareRequests : HandleSheets("r1", req)

NextRate == DoHandleBare \/ DoHandleSheetsBare \/ TickHandler

\* Both versions of api/sheets.js under such requests.
SpecRate == InitDeployed /\ [][NextRate]_vars

\* The requests of the handler specification.
Requests ==
    {Get("a", sh, ac) : sh \in {SheetPool[1], Absent}, ac \in {Absent, "list"}}
    \cup {[Get("a", SheetPool[1], Absent) EXCEPT !.method = m] :
              m \in {"OPTIONS", "POST"}}

DoHandle == \E req \in Requests : Handle("r1", req)

DoComplete == \E out \in UpstreamOutcomes : Complete("r1", out)

DoHandleSheets == \E req \in Requests : HandleSheets("r1", req)

DoCompleteSheets == \E out \in UpstreamOutcomes : CompleteSheets("r1", out)

\* The clock of the handler specification runs until every entry written at
\* time 0 has expired.
TickServe == now < CACHE_TTL + 2 /\ TickHandler

NextHandler ==
    \/ DoHandle
    \/ DoComplete
    \/ Sweep
    \/ DoHandleSheets
    \/ DoCompleteSheets
    \/ TickServe

\* Either version of api/sheets.js under any sequence of requests of one
\* client, upstream answers that take time, and timer ticks, one handler in
\* flight at a time.
SpecHandler == InitDeployed /\ [][NextHandler]_vars

\* rate-limit.js: a request arrives and its handler runs to its response.
\* The history of admitted requests is kept for the identifiers it covers.
HandleLimiter(req) ==
    LET h == handler_limiter(requests, req, now)
        id == h.result.id
    IN  /\ lastOp' = "limit"
        /\ requests' = h.map
        /\ result' = h.result
        /\ resp' = h.resp
        /\ admitted' = IF h.result.allowed /\ id \in Clients
                       THEN [admitted EXCEPT ![id] = Append(@, now)]
                       ELSE admitted
        /\ rejected' = IF id \in Identifiers
                       THEN [rejected EXCEPT ![id] =
                                IF ~h.result.allowed THEN "rejected"
                                ELSE IF @ = "rejected" THEN "readmitted" ELSE "no"]
                       ELSE rejected
        /\ UNCHANGED <<now, cacheVars, deployed, configured, rateLimits,
                       rateLimitMap, serverCache, pending, workerVars,
                       lifecycleVars>>

\* A GET request with forwarded-for entries x, real-ip header r and
\* connection address c.
From(x, r, c) ==
    [method |-> "GET", xff |-> x, realIp |-> r, remote |-> c,
     sheet |-> Absent, action |-> Absent]

\* The requests of the endpoint specification: with a forwarded-for header
\* of two entries, with one whose first entry is empty, and without it;
\* then with and without the real-ip header and the connection address.
HeaderRequests ==
    {From(<<"a", "b">>, "b", "c"), From(<<"", "a">>, "b", "c"),
     From(<<>>, "b", "c"), From(<<>>, Absent, "c"), From(<<>>, Absent, Absent)}

DoHandleLimiter == \E req \in HeaderRequests : HandleLimiter(req)

\* The clock of the endpoint specification stops inside the first window.
TickEndpoint == now < windowMs - 1 /\ TickLimiter

NextEndpoint == DoHandleLimiter \/ TickEndpoint

\* api/rate-limit.js: its handler under any sequence of requests.
SpecEndpoint == Init /\ [][NextEndpoint]_vars

\* The requests of the fill specification: GET requests of every client for
\* one sheet name more than MAX_CACHE_SIZE.
FillSheets == {SheetPool[i] : i \in 1..(MAX_CACHE_SIZE + 1)}

\* The upstream answer of the fill specification.
Served == [kind |-> "ok", status |-> "200", data |-> "p1", msg |-> {}]

FillRequests == {Get(ip, sh, Absent) : ip \in Ips, sh \in FillSheets}

DoHandleFill == \E req \in FillRequests : Handle("r1", req)

DoCompleteFill == Complete("r1", Served)

DoHandleSheetsFill ==
    \E req \in FillRequests : HandleSheets("r1", req)

DoCompleteSheetsFill == CompleteSheets("r1", Served)

NextFill ==
    \/ DoHandleFill
    \/ DoCompleteFill
    \/ DoHandleSheetsFill
    \/ DoCompleteSheetsFill

InitFill ==
    /\ InitProcess
    /\ deployed \in {"part_001", "sheets.js"}
    /\ configured = TRUE

\* Either version of api/sheets.js, configured, under a burst of requests of
\* two clients for more sheets than the cache is meant to hold, every
\* upstream call succeeding.
SpecFill == InitFill /\ [][NextFill]_vars

\* The upstream answers of the concurrent specification: each call is served
\* one of two payloads.
ServedEither == {[Served EXCEPT !.data = p] : p \in Payloads}

DoHandleConcurrent ==
    \E sl \in Slots, req \in FillRequests : Handle(sl, req)

DoCompleteConcurrent ==
    \E sl \in Slots, out \in ServedEither : Complete(sl, out)

DoHandleSheetsConcurrent ==
    \E sl \in Slots, req \in FillRequests : HandleSheets(sl, req)

DoCompleteSheetsConcurrent ==
    \E sl \in Slots, out \in ServedEither : CompleteSheets(sl, out)

NextConcurrent ==
    \/ DoHandleConcurrent
    \/ DoCompleteConcurrent
    \/ DoHandleSheetsConcurrent
    \/ DoCompleteSheetsConcurrent

\* Either version of api/sheets.js, configured, two handler invocations in
\* flight at a time: each may arrive while the other awaits its upstream
\* call, and the two calls settle in either order.
SpecConcurrent == InitFill /\ [][NextConcurrent]_vars

\* sw.js: the worker under any sequence of install events, API calls and
\* navigations, the network and the storage answering as they please.
SpecWorker == Init /\ [][NextWorker]_vars

\* sw.js: the cache-first strategies under any sequence of requests for a
\* static asset and for another resource, their background re-fetches
\* settling at any later time.
SpecCacheFirst == Init /\ [][NextCacheFirst]_vars

\* sw.js: the fetch listener and the strategy it dispatches to, under any
\* sequence of requests of the worker's origin and of other origins. The
\* network serves one version of each body, so that a background re-fetch
\* changes no store and is left in flight.
SpecFetch == Init /\ [][NextFetch]_vars

\* A worker of either version about to be activated: its install event has
\* created its static store and put the shell in it, and the origin holds
\* any of the other stores, a static store of the other version with the
\* shell that version put.
InitActivate ==
    /\ InitServer
    /\ deployed = "part_001"
    /\ configured = TRUE
    /\ script \in {"sw.js", "part_000"}
    /\ cacheNames \in {names \in SUBSET AllNames :
                          (IF script = "sw.js" THEN CACHE_STATIC ELSE STATIC_CACHE)
                              \in names}
    /\ held = [n \in AllNames |->
                  IF n \in cacheNames /\ n \in {CACHE_STATIC, STATIC_CACHE}
                  THEN {Entry("/", TRUE, 0)} ELSE {}]
    /\ activation = NoActivation
    /\ sweep = NoSweep

\* sw.js and part_000: the activate event, the steps of its listeners
\* interleaved in every order.
SpecActivate == InitActivate /\ [][NextActivate]_vars

\* sw.js: the activate event of a worker that holds its three stores, the
\* strategies storing responses and time passing before, during and after
\* the sweep.
SpecSweep == Init /\ [][NextSweep]_vars

(* ======================= claims: api/rate-limit.js ===================== *)
\* The step just taken was a call of RateLimiter.check.
CheckStep == lastOp' = "check"

\* The timestamps of ts inside the trailing window at time t0.
Surviving(ts, t0) == SelectSeq(ts, LAMBDA t : InWindow(t, t0))

\* The array the map m records for id ([] when it has none).
Recorded(m, id) == IF MapHas(m, id) THEN MapGet(m, id) ELSE <<>>

\* C1: once maxRequests checks of an identifier have been admitted with
\* timestamps that are all still inside the trailing window, the next check
\* of that identifier returns allowed = false; and the admitted check that
\* brought the count to maxRequests returned remaining = 0.
C1_RejectAfterMax ==
    [][CheckStep =>
        /\ (Len(admitted[result'.id]) >= maxRequests => ~result'.allowed)
        /\ (result'.allowed /\ Len(admitted'[result'.id]) = maxRequests
                => result'.remaining = 0)]_vars

\* C1 witness: a check was rejected right after maxRequests admitted checks
\* that are all still inside the window.
C1_Witness ==
    /\ lastOp = "check"
    /\ ~result.allowed
    /\ Len(admitted[result.id]) = maxRequests
    /\ \A i \in 1..maxRequests : InWindow(admitted[result.id][i], now)

\* C3: a check that finds maxRequests or more surviving timestamps returns
\* allowed = false, remaining = 0 and resetAt = earliest surviving timestamp
\* + windowMs, and records no new timestamp: the identifier's array is left
\* holding exactly the surviving timestamps.
C3_RejectShape ==
    [][CheckStep =>
        LET id == result'.id
            surv == Surviving(Recorded(requests, id), now)
        IN  Len(surv) >= maxRequests =>
                /\ result'.allowed = FALSE
                /\ result'.remaining = 0
                /\ result'.resetAt = SeqMin(surv) + windowMs
                /\ Recorded(requests', id) = surv]_vars

\* C3 witness: maxRequests admits at one instant t, then a rejection at a
\* later instant inside the window whose resetAt is t + windowMs.
C3_Witness ==
    /\ lastOp = "check"
    /\ ~result.allowed
    /\ result.remaining = 0
    /\ Len(Recorded(requests, result.id)) = maxRequests
    /\ \A i \in 1..maxRequests : Recorded(requests, result.id)[i] = 0
    /\ now = 1
    /\ result.resetAt = windowMs

\* C4: a check made when windowMs has elapsed past the oldest timestamp
\* recorded for the identifier is admitted, whether or not the identifier
\* was rejected before, and whether or not reset or cleanup ran in between.
C4_AdmittedAgain ==
    [][CheckStep =>
        LET id == result'.id
            recorded == Recorded(requests, id)
        IN  (Len(recorded) > 0 /\ now - SeqMin(recorded) >= windowMs)
                => result'.allowed]_vars

\* C4 witness: an identifier that was rejected has been admitted again by a
\* check, with no reset in between, after every earlier timestamp had left
\* the window.
C4_Witness ==
    /\ lastOp = "check"
    /\ result.allowed
    /\ rejected[result.id] = "readmitted"
    /\ result.remaining = maxRequests - 1

(* ================= claims: the part_001 response cache ================= *)
\* The step just taken was a call of setCache, of getCache.
SetStep == lastOp' = "setCache"

GetStep == lastOp' = "getCache"

C8_OverwriteEvictsNothing ==
    [][SetStep =>
        LET key == got'.key
        IN  /\ MapHas(cache, key) =>
                /\ MapKeys(cache') = MapKeys(cache)
                /\ \A k \in MapKeys(cache) \ {key} :
                        MapGet(cache', k) = MapGet(cache, k)
            /\ ~(MapKeys(cache) \subseteq MapKeys(cache')) =>
                    (Len(cache) >= MAX_CACHE_SIZE /\ ~MapHas(cache, key))]_vars

(* ===================== claims: the request handlers ==================== *)
\* C2: for every client and at every instant, the number of that client's
\* requests admitted past the rate-limit step during the trailing
\* RATE_WINDOW never exceeds MAX_REQUESTS.
C2_AdmittedWithinLimit ==
    \A ip \in Ips : Len(admitted[ip]) <= MAX_REQUESTS

\* C2 on sheets.js alone, whose checkRateLimit never drops an entry.
C2_SheetsAdmittedWithinLimit ==
    deployed = "sheets.js" => C2_AdmittedWithinLimit

\* The step just taken was a handler running from a request's arrival to its
\* response or its first await.
HandlerStep == lastOp' = "handler"

\* The cache key of the lookup a request leads to.
LookupKey(req) ==
    IF deployed = "part_001"
    THEN IF req.action = "list" THEN getCacheKey(Null, "list")
         ELSE getCacheKey(req.sheet, Null)
    ELSE IF req.action = "list" THEN <<"sheet-names-list">>
         ELSE <<"sheet-data-", req.sheet>>

\* The lookup of the handler step just taken was a hit.
LookupHit == resp'.status = 200 /\ "fetch" \notin resp'.calls

\* A handler step that looks its key up agrees with the history of writes.
ReadAfterWrite ==
    (HandlerStep /\ "cacheRead" \in resp'.calls) =>
        LET w == written[LookupKey(resp'.req)]
        IN  /\ (w.data \in Payloads /\ now - w.at < CACHE_TTL)
                    => (LookupHit /\ resp'.data = w.data)
            /\ LookupHit
                    => (w.data \in Payloads /\ resp'.data = w.data
                            /\ now - w.at <= CACHE_TTL)

\* C5: a cache lookup made less than the time-to-live after a write of its
\* key, the key not having been evicted since, is a hit that returns exactly
\* the value written; and every hit returns the value of a write of its key
\* made no more than the time-to-live before.
C5_ReadAfterWrite == [][ReadAfterWrite]_vars

\* C5 on part_001 alone, whose setCache stamps an entry with the time of the
\* write.
C5_PartReadAfterWrite ==
    [][deployed = "part_001" => ReadAfterWrite]_vars

\* C7: the response cache never holds more than MAX_CACHE_SIZE entries.
C7_CacheWithinSize ==
    /\ Len(cache) <= MAX_CACHE_SIZE
    /\ Len(serverCache) <= MAX_CACHE_SIZE

\* C7 on part_001 alone, whose setCache evicts before it stores.
C7_PartCacheWithinSize == Len(cache) <= MAX_CACHE_SIZE

\* The rate limiter of the deployed handler rejects request req now.
Limited(req) ==
    IF deployed = "part_001"
    THEN req.method = "GET"
            /\ ~checkRateLimit(rateLimits, clientIp(req), now).ok
    ELSE req.method # "OPTIONS"
            /\ ~checkRateLimit_sheets(rateLimitMap, clientIp_sheets(req), now).ok

\* C9: a request the rate limiter rejects is answered 429 by a handler that
\* does nothing but consult the limiter: no cache read, write or sweep, no
\* upstream call, the caches left as they were and no call left in flight.
C9_RejectedTouchesNothing ==
    [][(HandlerStep /\ Limited(resp'.req)) =>
        /\ resp'.status = 429
        /\ resp'.calls = {"rateLimit"}
        /\ cache' = cache
        /\ serverCache' = serverCache
        /\ pending' = pending
        /\ written' = written]_vars

\* C9 witness: a client that has MAX_REQUESTS admitted requests inside the
\* window was answered 429 while the cache held an entry to read.
C9_Witness ==
    /\ lastOp = "handler"
    /\ resp.status = 429
    /\ resp.calls = {"rateLimit"}
    /\ Len(admitted[clientIp(resp.req)]) = MAX_REQUESTS
    /\ (cache # <<>> \/ serverCache # <<>>)

\* C10: the retry-after of a 429 response is the number of seconds, rounded
\* up, from now until the earliest surviving timestamp of the client's
\* window plus the window.
C10_RetryAfterFromResetAt ==
    [][(HandlerStep /\ deployed = "part_001" /\ resp'.status = 429) =>
        LET surv == validRequests(Recorded(rateLimits, clientIp(resp'.req)), now)
        IN  resp'.retryAfter
                = CeilDiv(SeqMin(surv) + RATE_WINDOW - now, MsPerSec)]_vars

\* C11: an OPTIONS request is answered 200 with no body by a handler that
\* has not reached the rate-limit step: every client's rate window, the
\* response caches and the calls in flight are left as they were, and no
\* upstream call is made.
C11_PreflightShortCircuits ==
    [][(HandlerStep /\ resp'.req.method = "OPTIONS") =>
        /\ resp'.status = 200
        /\ resp'.data = Null
        /\ resp'.calls = {}
        /\ rateLimits' = rateLimits
        /\ rateLimitMap' = rateLimitMap
        /\ admitted' = admitted
        /\ cache' = cache
        /\ serverCache' = serverCache
        /\ pending' = pending]_vars

\* C11 witness: an OPTIONS request of a client whose window is full was
\* answered 200 while the cache held an entry.
C11_Witness ==
    /\ lastOp = "handler"
    /\ resp.req.method = "OPTIONS"
    /\ resp.status = 200
    /\ Len(admitted[clientIp(resp.req)]) = MAX_REQUESTS
    /\ (cache # <<>> \/ serverCache # <<>>)

\* The handler step just taken admitted its request past the rate-limit step.
AdmittedStep ==
    HandlerStep /\ "rateLimit" \in resp'.calls /\ resp'.status # 429

\* An admitted request without action=list and without a sheet name is
\* answered 400 with no cache lookup, no cache write and no upstream call.
MissingParameters ==
    (AdmittedStep /\ resp'.req.action # "list" /\ Falsy(resp'.req.sheet)) =>
        /\ resp'.status = 400
        /\ resp'.calls \cap {"cacheRead", "cacheWrite", "fetch"} = {}
        /\ pending' = pending

\* C12: every admitted request that carries neither action=list nor a sheet
\* name is answered 400 and terminates without a cache lookup or an upstream
\* call, whatever the cache holds and whether or not the server is
\* configured.
C12_MissingParameters == [][MissingParameters]_vars

\* C12 on a configured server, and on sheets.js, which never tests its
\* configuration.
C12_ConfiguredMissingParameters ==
    [][(configured \/ deployed = "sheets.js") => MissingParameters]_vars

\* The last response carries a payload; it is marked as cache-derived; its
\* payload came from upstream during the request it answers.
Successful == resp.status = 200 /\ resp.data \in Payloads

MarkedCached == resp.xcache = "HIT" \/ resp.cached = "true"

FetchedNow == "fetch" \in resp.calls

\* C13: a successful response is marked as cache-derived (X-Cache: HIT or
\* cached: true) exactly when its payload was served from the response
\* cache, and not when the payload was fetched during the same request.
C13_MarkedIffFromCache ==
    Successful => (MarkedCached <=> ~FetchedNow)

\* C13, one direction: a payload served from the cache is always marked.
C13_CacheHitIsMarked ==
    (Successful /\ ~FetchedNow) => MarkedCached

\* The response cache of the deployed handler.
Store == IF deployed = "part_001" THEN cache ELSE serverCache

\* The step just taken was a handler resuming from its upstream call.
ResumeStep == lastOp' = "resume"

\* The cache gains a key only by a successful fetch for that key, a
\* successful fetch stores what it fetched, and a failed fetch leaves the
\* cache as it was.
StoredByFetch ==
    /\ \A k \in MapKeys(Store') \ MapKeys(Store) :
            /\ ResumeStep
            /\ resp'.status = 200
            /\ \E sl \in Slots : pending[sl].pc = "fetch" /\ pending[sl].key = k
                                    /\ pending'[sl].pc = "idle"
    /\ (ResumeStep /\ resp'.status = 200) =>
            \E sl \in Slots :
                /\ pending[sl].pc = "fetch" /\ pending'[sl].pc = "idle"
                /\ MapHas(Store', pending[sl].key)
                /\ MapGet(Store', pending[sl].key).data = resp'.data
    /\ (ResumeStep /\ resp'.status # 200) => Store' = Store

\* An admitted request for a key fetched less than the time-to-live ago and
\* not evicted since is answered from the cache, with no upstream call.
ServedAfterFetch ==
    (AdmittedStep /\ "cacheRead" \in resp'.calls) =>
        LET w == written[LookupKey(resp'.req)]
        IN  (w.data \in Payloads /\ now - w.at < CACHE_TTL)
                => (resp'.status = 200 /\ "fetch" \notin resp'.calls
                        /\ pending' = pending)

\* C14: the response cache gets an entry for a key exactly as the result of
\* a successful upstream fetch for that key; every admitted request for the
\* key made within the time-to-live after the fetch is answered from the
\* cache with no upstream call; a failed fetch stores nothing.
C14_WriteThrough == [][StoredByFetch /\ ServedAfterFetch]_vars

\* C14 without the requests that follow the fetch: what the cache stores.
C14_StoredByFetch == [][StoredByFetch]_vars

\* C14 on part_001 alone.
C14_PartWriteThrough ==
    [][deployed = "part_001" => (StoredByFetch /\ ServedAfterFetch)]_vars

\* The status the failure mapping of spec 4.4 gives a failed upstream call.
MappedStatus(out) ==
    IF out.kind = "network" THEN 503
    ELSE IF out.status = "404" THEN 404
    ELSE IF out.status \in {"401", "403"} THEN 403
    ELSE 500

\* The handler resumes from an upstream call that came to out.
Resumes(out) ==
    \E sl \in Slots : Complete(sl, out) \/ CompleteSheets(sl, out)

\* C15: the status of the response to a failed upstream call is determined
\* by the kind of failure: 404 exactly when upstream answered 404, 403
\* exactly when it answered 401 or 403, 503 when the call failed at
\* transport level, 500 for every other failure.
C15_FailureMapping ==
    [][\A out \in UpstreamOutcomes :
          (out.kind # "ok" /\ Resumes(out)) => resp'.status = MappedStatus(out)]_vars

\* C15 on part_001, for upstream bodies that contain no status code and
\* transport errors whose message names ECONNREFUSED or ETIMEDOUT.
C15_PartPlainFailureMapping ==
    [][\A out \in UpstreamOutcomes :
          (/\ deployed = "part_001"
           /\ out.kind = "http" => out.msg = {out.status}
           /\ out.kind = "network" => out.msg # {}
           /\ out.kind # "ok" /\ Resumes(out)) => resp'.status = MappedStatus(out)]_vars

\* An admitted request that names what it wants is answered 500 on an
\* unconfigured server, with no upstream call made or left in flight.
RefusedUnconfigured ==
    (/\ ~configured
     /\ AdmittedStep
     /\ (resp'.req.action = "list" \/ ~Falsy(resp'.req.sheet))) =>
        /\ resp'.status = 500
        /\ "fetch" \notin resp'.calls
        /\ pending' = pending

\* C16: when the API key or the spreadsheet identifier is not configured,
\* no upstream call is attempted and the request is answered with a server
\* error.
C16_NoCallUnconfigured == [][RefusedUnconfigured]_vars

\* C16 on part_001 alone, which tests its environment before it fetches.
C16_PartNoCallUnconfigured ==
    [][deployed = "part_001" => RefusedUnconfigured]_vars

\* A response has been sent to a request that was not a preflight.
Answered == resp.status # 0 /\ resp.req.method \notin {"", "OPTIONS"}

\* C17: every response to a non-preflight request carries the rate-limit
\* headers (limit, remaining, reset), whatever the outcome of the request.
C17_RateHeadersAlways ==
    Answered =>
        /\ resp.rateLimit.limit >= 0
        /\ resp.rateLimit.remaining >= 0
        /\ resp.rateLimit.reset >= 0

\* C17 on the handler of rate-limit.js, whose three headers are set from
\* what check returned before the outcome is looked at.
C17_EndpointRateHeaders ==
    lastOp = "limit" =>
        /\ resp.status \in {200, 429}
        /\ resp.rateLimit = [limit |-> maxRequests,
                             remaining |-> result.remaining,
                             reset |-> result.resetAt]

\* The identifier the resolution order of spec 4.4 gives a request: the
\* first forwarded-for entry, else the real-ip header, else the connection
\* address, else "unknown".
ResolvedIdentity(req) ==
    IF req.xff # <<>> THEN req.xff[1]
    ELSE IF req.realIp # Absent THEN req.realIp
    ELSE IF req.remote # Absent THEN req.remote
    ELSE "unknown"

\* The forwarded-for header of a request is absent or starts with a
\* non-empty entry free of white space.
PlainForwarded(req) == req.xff = <<>> \/ req.xff[1] \notin {"", " ", "a "}

\* The step just taken was the handler of rate-limit.js.
LimitStep == lastOp' = "limit"

\* C18: the identifier a handler rate-limits by is the first forwarded-for
\* entry when the header is present, else the real-ip header, else the
\* connection address, else "unknown".
C18_IdentityOrder ==
    [][(LimitStep /\ PlainForwarded(resp'.req)) =>
            result'.id = ResolvedIdentity(resp'.req)]_vars

\* C18 on the two versions of api/sheets.js: they resolve every request of
\* the endpoint specification in the claimed order.
C18_SheetsIdentityOrder ==
    \A req \in HeaderRequests :
        PlainForwarded(req) =>
            /\ clientIp(req) = ResolvedIdentity(req)
            /\ clientIp_sheets(req) = ResolvedIdentity(req)

\* C10 on the handler of rate-limit.js: the retryAfter of its 429 is the
\* rounded-up number of seconds until the earliest recorded timestamp plus
\* the window.
C10_EndpointRetryAfter ==
    (lastOp = "limit" /\ resp.status = 429) =>
        resp.retryAfter
            = CeilDiv(SeqMin(Recorded(requests, result.id)) + windowMs - now,
                      MsPerSec)

(* ====================== claims: the service worker ===================== *)
\* The step just taken was a run of handleAPIRequest, of
\* handleDocumentRequest.
ApiStep == lastOp' = "handleAPIRequest"

DocumentStep == lastOp' = "handleDocumentRequest"

\* The response of an API run is the network response when the fetch
\* resolved; when it rejected, the cached copy if the API store holds one
\* for the request, else the synthesized 503 payload with offline: true.
NetworkFirst ==
    LET r == swReply'
        copy == cache_match(stores[CACHE_API], r.req)
    IN  /\ r.net.kind = "ok" => r.reply = NetworkReply(r.net)
        /\ r.net.kind = "failed" =>
                IF copy # Absent
                THEN r.reply.kind = "cached" /\ r.reply.body = copy
                ELSE r.reply.status = 503 /\ r.reply.offline

\* C19: for an /api/ request, when the network fetch succeeds the response
\* is that network response whatever the outcome of storing it; when the
\* fetch fails it is the cached copy if there is one, else a synthesized 503
\* payload with offline: true; no cached copy is returned while the fetch
\* succeeds.
C19_NetworkFirst == [][ApiStep => NetworkFirst]_vars

\* C19 for the runs whose store write, if they make one, resolves.
C19_StoredNetworkFirst ==
    [][(/\ ApiStep
        /\ swReply'.net.status = 200
                => cache_put_resolves(swReply'.req, swReply'.stored))
            => NetworkFirst]_vars

\* Some store of the worker holds a root document.
RootCached ==
    \E n \in StoreNames, u \in STATIC_ASSETS : stores[n][u] # Absent

\* The response is a cached root document.
RootReturned(reply) ==
    /\ reply.kind = "cached"
    /\ \E n \in StoreNames, u \in STATIC_ASSETS : reply.body = stores[n][u]

\* C20: a document request whose network fetch fails and which has no
\* cached copy of its own gets the root document whenever some store of the
\* worker holds one, the store filled by the install step included.
C20_ShellFallback ==
    [][(/\ DocumentStep
        /\ swReply'.net.kind = "failed"
        /\ \A n \in StoreNames : stores[n][swReply'.req.url] = Absent
        /\ RootCached)
            => RootReturned(swReply'.reply)]_vars

\* C20 when the dynamic store itself holds /index.html.
C20_DynamicShellFallback ==
    [][(/\ DocumentStep
        /\ swReply'.net.kind = "failed"
        /\ \A n \in StoreNames : stores[n][swReply'.req.url] = Absent
        /\ stores[CACHE_DYNAMIC]["/index.html"] # Absent)
            => RootReturned(swReply'.reply)]_vars

\* The step just taken was a run of a cache-first strategy; the store it
\* opens; the copy that store held for the request.
CacheFirstStep == lastOp' \in {"handleStaticRequest", "handleDynamicRequest"}

OpenedStore ==
    IF lastOp' = "handleStaticRequest" THEN CACHE_STATIC ELSE CACHE_DYNAMIC

HeldCopy == cache_match(stores[OpenedStore], swReply'.req)

\* A cache-first run that finds a copy returns it while its re-fetch is
\* still in flight, and no re-fetch that settles touches a response.
CopyReturned ==
    /\ (CacheFirstStep /\ HeldCopy # Absent) =>
            /\ swReply'.reply.kind = "cached"
            /\ swReply'.reply.body = HeldCopy
            /\ stores' = stores
            /\ [store |-> OpenedStore, req |-> swReply'.req] \in refreshing'
    /\ lastOp' = "refresh" => swReply' = swReply

\* A cache-first run that finds no copy returns the network response,
\* stored when its status is 200, and a 503 placeholder when the fetch
\* failed.
MissFetched ==
    (CacheFirstStep /\ HeldCopy = Absent) =>
        LET r == swReply'
        IN  /\ r.net.kind = "ok" =>
                    /\ r.reply = NetworkReply(r.net)
                    /\ r.net.status = 200 =>
                            stores'[OpenedStore][r.req.url] = r.net.body
            /\ r.net.kind = "failed" =>
                    r.reply.kind = "synthesized" /\ r.reply.status = 503

\* C21: a cache-first run that finds a cached copy returns that copy without
\* waiting for its background re-fetch, whatever the re-fetch comes to; on a
\* miss the network response is returned, and stored when its status is
\* 200, and a 503 placeholder is returned when the network fails.
C21_CacheFirst == [][CopyReturned /\ MissFetched]_vars

\* C21, the runs that find a copy.
C21_CopyReturned == [][CopyReturned]_vars

\* C21, the misses whose store write, if they make one, resolves.
C21_StoredMissFetched ==
    [][(swReply'.net.status = 200
            => cache_put_resolves(swReply'.req, swReply'.stored))
        => MissFetched]_vars

(* --------------------- claims: sw.js, fetch listener ------------------- *)
\* The step just taken was a fetch event.
FetchStep ==
    lastOp' \in {"handleAPIRequest", "handleStaticRequest",
                 "handleDocumentRequest", "handleDynamicRequest", "none"}

\* The host of the URL is one of the CDN and font hosts.
ListedHost(url) == \E host \in staticHosts : hostIncluded_exact(url.hostname, host)

\* The strategy the precedence names for a request: none for a request to
\* an origin that is neither the worker's own nor a CDN or font host, then
\* the API strategy for an API path, the static one for a static extension
\* or a CDN or font host, the document one for a navigation, and the
\* cache-first default.
Precedence(req) ==
    LET url == URL(req.url)
    IN  IF url.origin # location_origin /\ ~ListedHost(url) THEN "none"
        ELSE IF startsWith(url.pathname, <<"/api/">>) THEN "handleAPIRequest"
        ELSE IF (\E ext \in staticExtensions : endsWith(url.pathname, <<ext>>))
                \/ ListedHost(url)
        THEN "handleStaticRequest"
        ELSE IF req.destination = "document" THEN "handleDocumentRequest"
        ELSE "handleDynamicRequest"

\* C22: every fetch event goes to the one strategy the precedence API path,
\* static asset (extension or CDN/font host), document destination,
\* cache-first default names, and a request to an origin that is neither
\* the worker's own nor an allow-listed CDN/font host goes to no strategy.
C22_Dispatch == [][FetchStep => lastOp' = Precedence(swReply'.req)]_vars

\* The host name of the request holds the name of a CDN or font host
\* without being that host.
Lookalike(req) ==
    LET url == URL(req.url)
    IN  /\ \E host \in staticHosts : hostIncluded(url.hostname, host)
        /\ ~ListedHost(url)

\* Every fetch event for a host that is not such a lookalike goes to the
\* strategy the precedence names.
C22_ListedDispatch ==
    [][(FetchStep /\ ~Lookalike(swReply'.req))
          => lastOp' = Precedence(swReply'.req)]_vars

(* ------------------- claims: sw.js, activate listeners ----------------- *)
\* The step just taken was the call of self.clients.claim().
ClaimStep == lastOp' = "activate.claim"

\* The store names of the current version of the script that runs.
CurrentNames ==
    IF script = "sw.js" THEN StoreNames ELSE {STATIC_CACHE, DYNAMIC_CACHE}

\* Every store the listener found under another name has been deleted.
OthersDeleted ==
    \A name \in activation.names :
        name \notin CurrentNames => name \in activation'.deleted

\* The stores of the current version are kept.
CurrentKept ==
    \A name \in activation.names :
        name \in CurrentNames
            => name \notin activation'.deleted /\ name \in cacheNames'

\* No deletion the listener started is still in flight.
DeletionsCompleted ==
    /\ activation'.pending = {}
    /\ activate_filter(script, activation.names) \subseteq activation'.deleted

\* C23: when the activate listener claims the open pages, every store that
\* existed under a name other than the current static, dynamic and API
\* names has been deleted, the current stores are kept, and no deletion is
\* still in flight.
C23_Activation ==
    [][ClaimStep => OthersDeleted /\ CurrentKept /\ DeletionsCompleted]_vars

\* The listener claims the pages after the deletions it started, and keeps
\* the current stores; the listener of part_000 has then deleted every
\* store of another name.
C23_PartActivation ==
    [][ClaimStep => /\ CurrentKept
                    /\ DeletionsCompleted
                    /\ (script = "part_000" => OthersDeleted)]_vars

\* Both activate listeners of sw.js have completed.
BothCompleted ==
    script = "sw.js" /\ activation.pc = "done" /\ sweep.pc = "done"

\* The store is one of the application, of a version other than the
\* current one.
OldVersion(name) ==
    startsWith(NameParts(name), <<"samaki-">>) /\ name \notin StoreNames

\* C27: in every interleaving of the two activate listeners of sw.js, once
\* both have completed the origin holds no samaki- store of another version.
C27_NoOldStore == BothCompleted => \A name \in cacheNames : ~OldVersion(name)

\* Once the first listener has completed, and until the sweep opens a
\* store, the origin holds no samaki- store of another version.
C27_PartNoOldStore ==
    (script = "sw.js" /\ activation.pc = "done" /\ sweep.pc \in {"idle", "keys"})
        => \A name \in cacheNames : ~OldVersion(name)

(* ---------------------- claims: sw.js, age sweep ----------------------- *)
\* The step just taken was the sweep's visit of one entry.
SweepStep == lastOp' = "sweep.check"

\* The max age of the class of a store.
ClassMaxAge(name) ==
    IF name = CACHE_STATIC THEN CACHE_EXPIRY.static
    ELSE IF name = CACHE_API THEN CACHE_EXPIRY.api
    ELSE CACHE_EXPIRY.dynamic

\* The entries of a store the step removed.
Removed(name) == held[name] \ held'[name]

\* C28: the sweep removes an entry only if its age, measured from the time
\* the response was produced, exceeds the max age of the class of its
\* store; every younger entry is kept, one stored moments before included.
C28_SweepByAge ==
    [][SweepStep => \A name \in StoreNames : \A e \in Removed(name) :
                        now - e.origin > ClassMaxAge(name)]_vars

\* The same of the entries whose response carries a Date header the worker
\* can read.
C28_DatedSweepByAge ==
    [][SweepStep => \A name \in StoreNames : \A e \in Removed(name) :
                        e.dated => now - e.origin > ClassMaxAge(name)]_vars

(* -------------------- claims: sw.js, error handling -------------------- *)
\* The step just taken ran one of the four strategies.
StrategyStep ==
    lastOp' \in {"handleAPIRequest", "handleStaticRequest",
                 "handleDocumentRequest", "handleDynamicRequest"}

\* The strategy completed with the network response, a cached copy or a
\* synthesized offline response.
Responded == swReply'.reply.kind \in {"network", "cached", "synthesized"}

\* C24: each of the four strategies, for every network outcome (success,
\* non-200, failure) and every store content (copy present or absent),
\* completes with the network response, a cached copy or a synthesized
\* offline response, never with a rejection or with no response.
C24_AlwaysResponds == [][StrategyStep => Responded]_vars

\* The API strategy and the two cache-first strategies always complete
\* with such a response, and the document strategy does whenever the
\* store holds a copy of the page or of /index.html.
C24_PartAlwaysResponds ==
    [][(StrategyStep
        /\ (lastOp' = "handleDocumentRequest"
              => \/ cache_match(stores[CACHE_DYNAMIC], swReply'.req) # Absent
                 \/ stores[CACHE_DYNAMIC]["/index.html"] # Absent))
          => Responded]_vars

(* ------------------ claims: server caches, TTL boundary ---------------- *)
\* The handler step just taken looked its key up in the response cache.
LookupStep == HandlerStep /\ "cacheRead" \in resp'.calls

\* The response cache holds an entry for the key whose age is under the TTL.
ValidEntry(key) ==
    MapHas(Store, key) /\ now - MapGet(Store, key).timestamp < CACHE_TTL

\* C25: in each version of the handler a lookup is a hit exactly when the
\* cache holds an entry whose age, now - timestamp, is under the TTL; an
\* entry whose age is exactly the TTL is a miss.
C25_ValidUnderTtl ==
    [][LookupStep => (LookupHit <=> ValidEntry(LookupKey(resp'.req)))]_vars

\* The same of sheets.js alone.
C25_SheetsValidUnderTtl ==
    [][(LookupStep /\ deployed = "sheets.js")
          => (LookupHit <=> ValidEntry(LookupKey(resp'.req)))]_vars

\* part_001: a lookup is a hit exactly when the age of the entry is at most
\* the TTL.
C25_PartValidUpToTtl ==
    [][(LookupStep /\ deployed = "part_001")
          => (LookupHit <=>
                LET key == LookupKey(resp'.req)
                IN  MapHas(cache, key)
                    /\ now - MapGet(cache, key).timestamp <= CACHE_TTL)]_vars

(* ----------------- claims: server caches, concurrency ------------------ *)
\* The handler invocation that resumed in the step just taken.
Resumed(sl) == pending[sl].pc = "fetch" /\ pending'[sl].pc = "idle"

\* The step is the second write of two concurrent requests for one key:
\* the invocation missed, awaited its upstream call and stores its payload
\* for a key that another invocation has stored in the meantime.
SecondWrite(sl) ==
    /\ ResumeStep
    /\ Resumed(sl)
    /\ resp'.status = 200
    /\ MapHas(Store, pending[sl].key)

\* The cache holds one entry for the key, with a fetched payload.
OneEntry(key) ==
    /\ Cardinality({i \in 1..Len(Store') : Store'[i].key = key}) = 1
    /\ MapGet(Store', key).data \in Payloads

\* C26: when two concurrent requests for one uncached key both miss, both
\* await upstream and both write, the cache is left as a sequential run
\* leaves it: one entry for the key holding one of the fetched payloads,
\* and, the first write having made the one insertion, no entry of another
\* key lost by the second.
C26_ConcurrentAsSequential ==
    [][\A sl \in Slots :
          SecondWrite(sl) => /\ OneEntry(pending[sl].key)
                             /\ MapKeys(Store') = MapKeys(Store)]_vars

\* The same of sheets.js alone.
C26_SheetsConcurrentAsSequential ==
    [][\A sl \in Slots :
          (SecondWrite(sl) /\ deployed = "sheets.js")
              => /\ OneEntry(pending[sl].key)
                 /\ MapKeys(Store') = MapKeys(Store)]_vars

\* part_001: the second write leaves one entry for the key, with a fetched
\* payload.
C26_PartOneEntry ==
    [][\A sl \in Slots : SecondWrite(sl) => OneEntry(pending[sl].key)]_vars

(* ------------------- claims: rate-limit.js, cleanup -------------------- *)
\* The step just taken was a call of RateLimiter.cleanup.
CleanupStep == lastOp' = "cleanup"

\* An identifier of the map has a timestamp inside the window.
HasValid(m, id) ==
    MapHas(m, id) /\ \E i \in 1..Len(MapGet(m, id)) : InWindow(MapGet(m, id)[i], now)

\* After the cleanup the map holds the identifiers that had a timestamp
\* inside the window, and no other.
CleanedUp ==
    /\ \A id \in MapKeys(requests') : HasValid(requests', id)
    /\ \A id \in Identifiers : MapHas(requests', id) <=> HasValid(requests, id)

\* The limiter a cleanup has never run on: the map of the admitted requests
\* of the identifier that are inside the window.
Uncleaned(id) ==
    IF admitted[id] = <<>> THEN <<>> ELSE <<[key |-> id, val |-> admitted[id]]>>

\* The check just made returned what it returns on that limiter.
SameAsUncleaned ==
    LET ret == check(Uncleaned(result'.id), result'.id, now).ret
    IN  /\ result'.allowed = ret.allowed
        /\ result'.remaining = ret.remaining
        /\ result'.resetAt = ret.resetAt

\* C29: a cleanup leaves every identifier that has a timestamp inside the
\* window and removes every identifier that has none, and whenever cleanups
\* have run, every later check returns the allowed, remaining and resetAt
\* it returns on the history of admitted requests, which no cleanup touches.
C29_CleanupInvisible ==
    [][(CleanupStep => CleanedUp) /\ (CheckStep => SameAsUncleaned)]_vars

\* A cleanup has removed an identifier whose requests were once rejected
\* and have all left the window, and has kept another.
C29_Witness ==
    /\ lastOp = "cleanup"
    /\ requests # <<>>
    /\ \E id \in Identifiers : rejected[id] = "rejected" /\ ~MapHas(requests, id)


====
